---- MODULE Spec2Model ----
(***************************************************************************)
(* Model of the legality classifier of the illegal-mining detection        *)
(* backend: IllegalMiningDetector.compare_with_lease, its per-polygon      *)
(* analysis, and generate_summary_statistics                               *)
(* (src/backend/compare_with_lease.py).                                    *)
(*                                                                         *)
(* Geometry.  In the area CRS the world is a strip of GridLen cells, each  *)
(* one metre wide and strip_height metres tall.  A geometry is the set of  *)
(* cells it covers; a detected polygon or a lease is the rectangle over    *)
(* the cells lo..hi-1, so intersection, difference and union are the set   *)
(* operations and area is (number of cells) * strip_height, in m^2.        *)
(* Buffering by b metres adds the cells within b cells of the geometry.    *)
(* Two rectangles that share only an edge intersect, with area 0.          *)
(*                                                                         *)
(* Numbers.  Python floats are held as exact fixed-point integers:         *)
(*   - an unrounded *_area_ha is held in units of 1e-4 ha (one m^2);       *)
(*   - an unrounded overlap percentage is the exact fraction <<num, den>>; *)
(*   - an unrounded confidence is held in units of 1e-4;                   *)
(*   - round(x, 2) yields hundredths, round(x, 1) yields tenths.           *)
(***************************************************************************)
EXTENDS Integers, Sequences, FiniteSets, TLC

VARIABLES
    detected_polygons,   \* caller's GeoDataFrame of detected areas: rows [id, geometry]
    lease_polygons,      \* caller's GeoDataFrame of leases: rows [lease_id, lease_name, geometry]
    detected_crs,        \* detected_polygons.crs
    lease_crs,           \* lease_polygons.crs
    equal_area_crs,      \* the equal_area_crs argument of compare_with_lease
    buffer_meters,       \* self.buffer_meters
    strip_height,        \* height of the strip in metres (area of one cell in m^2)
    pc,                  \* position inside compare_with_lease / its caller
    lease_union_buffered,\* local of compare_with_lease
    results,             \* local list `results` of compare_with_lease
    returned,            \* rows of the GeoDataFrame handed back to the caller
    raised,              \* TRUE iff compare_with_lease let an exception reach the caller
    log,                 \* levels of the messages logged by the run, oldest first
    summary,             \* what generate_summary_statistics(returned) gave, or NoSummary
    raster_shape,        \* << rows, cols >> of the raster a MiningDetector call works on
    bands,               \* pixel -> [blue, green, red, nir, swir1, swir2]
    indices,             \* pixel -> the eight spectral indices, or NoIndices
    mining_mask,         \* the raw mask of _create_mining_mask: set of pixels equal to 1
    cleaned_mask,        \* local cleaned_mask of generate_mask: set of pixels equal to 1
    mask,                \* the mask argument of polygonize_mask: set of pixels equal to 1
    transform,           \* the transform argument of polygonize_mask: [a, e]
    crs,                 \* the crs argument of polygonize_mask
    min_area_ha,         \* the min_area_ha argument of polygonize_mask, or NoneArea
    shapes,              \* what rasterio.features.shapes yields, in order
    shape_index,         \* number of shapes the loop of polygonize_mask has consumed
    polygons,            \* local list `polygons` of polygonize_mask
    properties,          \* local list `properties` of polygonize_mask
    polygons_gdf,        \* rows of the GeoDataFrame polygonize_mask returns
    dpc,                 \* position inside the MiningDetector call
    cancel_requested,    \* TRUE once the caller of a batch has asked for its cancellation
    runs,                \* concurrent calls of compare_with_lease: run -> arguments and locals
    analysis_results,    \* app.analysis_results: job_id -> the job's dict
    task                 \* job_id -> position and locals of _run_illegal_mining_analysis

\* the variables of the legality classifier and of the mining detector
classifier == << detected_polygons, lease_polygons, detected_crs, lease_crs,
                 equal_area_crs, buffer_meters, strip_height, pc,
                 lease_union_buffered, results, returned, raised, log, summary >>

detector == << raster_shape, bands, indices, mining_mask, cleaned_mask, mask,
               transform, crs, min_area_ha, shapes, shape_index, polygons,
               properties, polygons_gdf, dpc >>

\* the variables of the web service and of the callers of the classifier
service == << cancel_requested, runs, analysis_results, task >>

vars == << classifier, detector, service >>

-----------------------------------------------------------------------------
(* Bounds of the model *)

GridLen == 20
MaxPolys == 2
MaxBuffer == 2

-----------------------------------------------------------------------------
(* Program constants, in the fixed-point units above *)

\* self.tolerance_ha = 0.01, in units of 1e-4 ha
tolerance_ha == 100

\* 1 ha = 10000 m^2: the divisor of `/ 10000`
M2PerHa == 10000

\* a missing geometry (None)
NoneGeom == [lo |-> -1, hi |-> -1]
NoneCRS == "None"
NoSummary == [none |-> TRUE]

\* no MiningDetector call is in progress
DetectorIdle ==
    /\ raster_shape = << 0, 0 >>
    /\ bands = << >>
    /\ indices = << >>
    /\ mining_mask = {}
    /\ cleaned_mask = {}
    /\ mask = {}
    /\ transform = [a |-> 0, e |-> 0]
    /\ crs = NoneCRS
    /\ min_area_ha = [m |-> 0, e |-> 0]
    /\ shapes = << >>
    /\ shape_index = 0
    /\ polygons = << >>
    /\ properties = << >>
    /\ polygons_gdf = << >>
    /\ dpc = "idle"

\* no request is being served, no batch is shared or being cancelled
ServiceIdle ==
    /\ cancel_requested = FALSE
    /\ runs = << >>
    /\ analysis_results = << >>
    /\ task = << >>

\* no classifier call is in progress
ClassifierIdle ==
    /\ detected_polygons = << >>
    /\ lease_polygons = << >>
    /\ detected_crs = NoneCRS
    /\ lease_crs = NoneCRS
    /\ equal_area_crs = NoneCRS
    /\ buffer_meters = 0
    /\ strip_height = 0
    /\ pc = "idle"
    /\ lease_union_buffered = {}
    /\ results = << >>
    /\ returned = << >>
    /\ raised = FALSE
    /\ log = << >>
    /\ summary = NoSummary

-----------------------------------------------------------------------------
(* Geometry of the strip *)

Grid == 0 .. (GridLen - 1)

\* the rectangle over cells lo..hi-1 (empty when lo = hi)
Rect(lo, hi) == [lo |-> lo, hi |-> hi]

CellsOf(g) == g.lo .. (g.hi - 1)

Abs(x) == IF x < 0 THEN -x ELSE x

\* shapely .area of a geometry given as a set of cells, in m^2
Area(cells) == Cardinality(cells) * strip_height

\* lease_ea.unary_union
UnaryUnion(leases) == UNION { CellsOf(leases[i].geometry) : i \in 1 .. Len(leases) }

\* geometry.buffer(b) for b > 0
BufferGeom(cells, b) == { c \in Grid : \E u \in cells : Abs(c - u) <= b }

\* shapely intersects: closed sets, so sharing an edge counts
Intersects(g, h) == g.lo < g.hi /\ h.lo < h.hi /\ g.lo <= h.hi /\ h.lo <= g.hi

-----------------------------------------------------------------------------
(* Python round() *)

\* round half to even of n / d (d > 0, n >= 0)
RoundHalfEven(n, d) ==
    LET q == n \div d
        r == n % d
    IN  IF 2 * r < d THEN q
        ELSE IF 2 * r > d THEN q + 1
        ELSE IF q % 2 = 0 THEN q ELSE q + 1

\* round(x, 2) of an area held in 1e-4 ha: hundredths of a hectare
Round2Ha(x) == RoundHalfEven(x, 100)

\* round(confidence, 2) of a confidence held in 1e-4: hundredths.  round()
\* rounds the binary double, which decides the two decimal ties the score can
\* take: 0.95*0.9 is the double just below 0.855 and 0.85*0.9 the double just
\* above 0.765.
Round2Conf(c) ==
    IF c = 8550 THEN 85
    ELSE IF c = 7650 THEN 77
    ELSE RoundHalfEven(c, 100)

\* round(p, 1) of a percentage <<num, den>>: tenths of a percent (the whole
\* percents are split off first to keep the products within 32 bits)
Round1Pct(p) == (p[1] \div p[2]) * 10 + RoundHalfEven((p[1] % p[2]) * 10, p[2])

\* round(part / whole * 100, 1) of two areas in hundredths of a hectare: tenths
\* of a percent.  round() rounds the binary double, which decides the ties
\* that are not exact in binary: 0.39 / 0.48 * 100 is the double just above
\* 81.25 and 0.07 / 0.16 * 100 the double just below 43.75.
Round1Rate(part, whole) ==
    LET q == (part * 1000) \div whole
        r == (part * 1000) % whole
    IN  IF 2 * r # whole THEN RoundHalfEven(part * 1000, whole)
        ELSE IF << part, whole >> = << 39, 48 >> THEN q + 1
        ELSE IF << part, whole >> = << 7, 16 >> THEN q
        ELSE RoundHalfEven(part * 1000, whole)

-----------------------------------------------------------------------------
(* IllegalMiningDetector._classify_mining_status *)

PctGE(p, k) == p[1] >= k * p[2]

\* variant: the tolerance taken as exclusive
Mut_classify_strict(outside_area_ha, overlap_percentage) ==
    IF outside_area_ha < tolerance_ha THEN "legal"
    ELSE IF PctGE(overlap_percentage, 80) THEN "mixed"
    ELSE "illegal"

\* variant: nothing is legal without some overlap
Mut_classify_overlap(outside_area_ha, overlap_percentage) ==
    IF outside_area_ha <= tolerance_ha /\ overlap_percentage[1] > 0 THEN "legal"
    ELSE IF PctGE(overlap_percentage, 80) THEN "mixed"
    ELSE "illegal"

\* variant: half an overlap is enough to be mixed
Mut_classify_half(outside_area_ha, overlap_percentage) ==
    IF outside_area_ha <= tolerance_ha THEN "legal"
    ELSE IF PctGE(overlap_percentage, 50) THEN "mixed"
    ELSE "illegal"

_classify_mining_status(outside_area_ha, overlap_percentage) ==
    IF outside_area_ha <= tolerance_ha THEN "legal"
    ELSE IF PctGE(overlap_percentage, 80) THEN "mixed"
    ELSE "illegal"

-----------------------------------------------------------------------------
(* IllegalMiningDetector._calculate_confidence_score *)

Min(a, b) == IF a < b THEN a ELSE b
Max(a, b) == IF a > b THEN a ELSE b

\* variant: the top base written 0.85
Mut_BaseConfidence_typo(overlap_percentage) ==
    IF PctGE(overlap_percentage, 95) THEN 85
    ELSE IF PctGE(overlap_percentage, 80) THEN 85
    ELSE IF PctGE(overlap_percentage, 50) THEN 70
    ELSE 60

\* base_confidence, in hundredths
BaseConfidence(overlap_percentage) ==
    IF PctGE(overlap_percentage, 95) THEN 95
    ELSE IF PctGE(overlap_percentage, 80) THEN 85
    ELSE IF PctGE(overlap_percentage, 50) THEN 70
    ELSE 60

\* area_factor, in tenths; total_area_ha in 1e-4 ha
AreaFactor(total_area_ha) ==
    IF total_area_ha >= 10 * M2PerHa THEN 10
    ELSE IF total_area_ha >= 1 * M2PerHa THEN 9
    ELSE 8

\* lease_factor, in tenths
LeaseFactor(num_overlapping_leases) ==
    IF num_overlapping_leases = 1 THEN 10
    ELSE IF num_overlapping_leases > 1 THEN 9
    ELSE 8

\* variant: several overlapping leases scored like one
Mut_confidence_noleases(total_area_ha, overlap_percentage, num_overlapping_leases) ==
    Min(10000, Max(0, BaseConfidence(overlap_percentage)
                        * AreaFactor(total_area_ha)
                        * (IF num_overlapping_leases >= 1 THEN 10 ELSE 8)))

\* the clamped product, in units of 1e-4
_calculate_confidence_score(total_area_ha, overlap_percentage, num_overlapping_leases) ==
    Min(10000, Max(0, BaseConfidence(overlap_percentage)
                        * AreaFactor(total_area_ha)
                        * LeaseFactor(num_overlapping_leases)))

-----------------------------------------------------------------------------
(* IllegalMiningDetector._analyze_single_polygon *)

\* variant: a failed analysis reported as illegal
Mut_ErrorRecord_illegal(detected_poly) ==
    [ geometry |-> detected_poly.geometry,
      total_area_ha |-> 0,
      inside_area_ha |-> 0,
      outside_area_ha |-> 0,
      overlap_percentage |-> 0,
      status |-> "illegal",
      confidence |-> 0,
      overlapping_leases |-> << >>,
      num_overlapping_leases |-> 0,
      illegal_area_ha |-> 0 ]

\* the dict of the except branch
ErrorRecord(detected_poly) ==
    [ geometry |-> detected_poly.geometry,
      total_area_ha |-> 0,
      inside_area_ha |-> 0,
      outside_area_ha |-> 0,
      overlap_percentage |-> 0,
      status |-> "error",
      confidence |-> 0,
      overlapping_leases |-> << >>,
      num_overlapping_leases |-> 0,
      illegal_area_ha |-> 0 ]

\* the list built by the loop over lease_gdf.iterrows(), from row k on
RECURSIVE OverlappingLeasesFrom(_, _, _)
OverlappingLeasesFrom(geom, lease_gdf, k) ==
    IF k > Len(lease_gdf) THEN << >>
    ELSE LET lease == lease_gdf[k]
             rest == OverlappingLeasesFrom(geom, lease_gdf, k + 1)
         IN  IF Intersects(geom, lease.geometry)
             THEN << [ lease_id |-> lease.lease_id,
                       lease_name |-> lease.lease_name,
                       overlap_area_ha |->
                           Round2Ha(Area(CellsOf(geom) \cap CellsOf(lease.geometry))) ] >>
                  \o rest
             ELSE rest

\* variant: only the first intersecting lease is listed
Mut_OverlappingLeases_first(geom, lease_gdf) ==
    LET all == OverlappingLeasesFrom(geom, lease_gdf, 1)
    IN  IF Len(all) = 0 THEN << >> ELSE << all[1] >>

OverlappingLeases(geom, lease_gdf) == OverlappingLeasesFrom(geom, lease_gdf, 1)

\* `.area if .area > 0 else 0`
PositiveOrZero(a) == IF a > 0 THEN a ELSE 0

\* detected_poly.geometry.intersection(lease_union)
InsideGeom(geom, lease_union) == CellsOf(geom) \cap lease_union

\* variant: the operands of difference swapped
Mut_OutsideGeom_swapped(geom, lease_union) == lease_union \ CellsOf(geom)

\* detected_poly.geometry.difference(lease_union)
OutsideGeom(geom, lease_union) == CellsOf(geom) \ lease_union

\* variant: the ratio inverted
Mut_OverlapPercentage_inverted(inside_area_ha, total_area_ha) ==
    IF inside_area_ha > 0 THEN << total_area_ha * 100, inside_area_ha >>
    ELSE << 0, 1 >>

\* overlap_percentage as the exact fraction inside / total * 100
OverlapPercentage(inside_area_ha, total_area_ha) ==
    IF total_area_ha > 0 THEN << inside_area_ha * 100, total_area_ha >>
    ELSE << 0, 1 >>

\* variant: mixed records left out
Mut_IllegalAreaHa_illegal_only(status, outside_area_ha) ==
    IF status = "illegal" THEN Round2Ha(outside_area_ha) ELSE 0

\* the 'illegal_area_ha' entry of the dict
IllegalAreaHa(status, outside_area_ha) ==
    IF status \in {"illegal", "mixed"} THEN Round2Ha(outside_area_ha) ELSE 0

\* the dict of the try branch; the *_area_ha locals are in m^2 = 1e-4 ha
AnalyzedRecord(detected_poly, lease_union, lease_gdf) ==
    LET geom == detected_poly.geometry
        total_area_ha == Area(CellsOf(geom))
        inside_area_ha == PositiveOrZero(Area(InsideGeom(geom, lease_union)))
        outside_area_ha == PositiveOrZero(Area(OutsideGeom(geom, lease_union)))
        overlap_percentage == OverlapPercentage(inside_area_ha, total_area_ha)
        overlapping_leases == OverlappingLeases(geom, lease_gdf)
        status == _classify_mining_status(outside_area_ha, overlap_percentage)
        confidence == _calculate_confidence_score(
                          total_area_ha, overlap_percentage, Len(overlapping_leases))
    IN  [ geometry |-> geom,
          total_area_ha |-> Round2Ha(total_area_ha),
          inside_area_ha |-> Round2Ha(inside_area_ha),
          outside_area_ha |-> Round2Ha(outside_area_ha),
          overlap_percentage |-> Round1Pct(overlap_percentage),
          status |-> status,
          confidence |-> Round2Conf(confidence),
          overlapping_leases |-> overlapping_leases,
          num_overlapping_leases |-> Len(overlapping_leases),
          illegal_area_ha |-> IllegalAreaHa(status, outside_area_ha) ]

\* a row whose geometry is None makes `detected_poly.geometry.area` raise
AnalysisRaises(detected_poly) == detected_poly.geometry = NoneGeom

_analyze_single_polygon(detected_poly, lease_union, lease_gdf) ==
    IF AnalysisRaises(detected_poly)
    THEN ErrorRecord(detected_poly)
    ELSE AnalyzedRecord(detected_poly, lease_union, lease_gdf)

-----------------------------------------------------------------------------
(* IllegalMiningDetector.generate_summary_statistics *)

RECURSIVE SumFrom(_, _)
\* sum of the numbers xs[k..Len(xs)]
SumFrom(xs, k) == IF k > Len(xs) THEN 0 ELSE xs[k] + SumFrom(xs, k + 1)

\* frame[col].sum()
SumColumn(rows, col) == SumFrom([k \in 1 .. Len(rows) |-> rows[k][col]], 1)

\* variant: the status filter keeps the rows of the other statuses
Mut_WithStatus_others(rows, st) == SelectSeq(rows, LAMBDA r : r.status # st)

\* variant: the status filter keeps every row
Mut_WithStatus_all(rows, st) == rows

\* frame[frame['status'] == st]
WithStatus(rows, st) == SelectSeq(rows, LAMBDA r : r.status = st)

CountStatus(rows, st) == Cardinality({ k \in 1 .. Len(rows) : rows[k].status = st })

\* variant: no detections reported as full compliance
Mut_EmptySummary_compliant ==
    [ total_detected_areas |-> 0,
      legal_areas |-> 0,
      illegal_areas |-> 0,
      mixed_areas |-> 0,
      total_detected_area_ha |-> 0,
      legal_area_ha |-> 0,
      illegal_area_ha |-> 0,
      compliance_rate_percent |-> 1000,
      violation_rate_percent |-> 0 ]

\* the dict returned for an empty frame
EmptySummary ==
    [ total_detected_areas |-> 0,
      legal_areas |-> 0,
      illegal_areas |-> 0,
      mixed_areas |-> 0,
      total_detected_area_ha |-> 0,
      legal_area_ha |-> 0,
      illegal_area_ha |-> 0,
      compliance_rate_percent |-> 0,
      violation_rate_percent |-> 0 ]

\* areas in hundredths of a hectare, rates in tenths of a percent,
\* average_confidence in hundredths
generate_summary_statistics(results_gdf) ==
    IF Len(results_gdf) = 0 THEN EmptySummary
    ELSE
    LET total_area == SumColumn(results_gdf, "total_area_ha")
        legal_area == SumColumn(WithStatus(results_gdf, "legal"), "total_area_ha")
        illegal_area == SumColumn(WithStatus(results_gdf, "illegal"), "illegal_area_ha")
        mixed_area == SumColumn(WithStatus(results_gdf, "mixed"), "illegal_area_ha")
        compliance_rate == IF total_area > 0
                           THEN Round1Rate(legal_area, total_area) ELSE 0
        violation_rate == IF total_area > 0
                          THEN Round1Rate(illegal_area + mixed_area, total_area)
                          ELSE 0
    IN  [ total_detected_areas |-> Len(results_gdf),
          legal_areas |-> CountStatus(results_gdf, "legal"),
          illegal_areas |-> CountStatus(results_gdf, "illegal"),
          mixed_areas |-> CountStatus(results_gdf, "mixed"),
          total_detected_area_ha |-> total_area,
          legal_area_ha |-> legal_area,
          illegal_area_ha |-> illegal_area + mixed_area,
          compliance_rate_percent |-> compliance_rate,
          violation_rate_percent |-> violation_rate,
          average_confidence |->
              RoundHalfEven(SumColumn(results_gdf, "confidence"), Len(results_gdf)) ]

-----------------------------------------------------------------------------
(* Inputs of one call *)

\* detected geometries: rectangles of the strip, an empty polygon, a missing one
PolyGeoms ==
    { Rect(0, 10), Rect(0, 18), Rect(0, GridLen), Rect(10, GridLen),
      Rect(17, GridLen), Rect(18, GridLen), Rect(18, 19), Rect(5, 5), NoneGeom }

LeaseRows ==
    { [lease_id |-> "ML-1", lease_name |-> "Mine A", geometry |-> Rect(0, 17)],
      [lease_id |-> "ML-2", lease_name |-> "Mine B", geometry |-> Rect(16, 18)] }

\* rows carry the id column polygonize_mask gives them
DetectedFrames ==
    UNION { { [k \in 1 .. n |-> [id |-> k, geometry |-> g[k]]] : g \in [1 .. n -> PolyGeoms] }
            : n \in 0 .. MaxPolys }

\* lease frames: the lease rows without repetition, in any order
LeaseFrames ==
    { f \in UNION { [1 .. n -> LeaseRows] : n \in 0 .. Cardinality(LeaseRows) } :
        \A i, j \in DOMAIN f : i # j => f[i] # f[j] }

StripHeights == { 48, 100, 5000, 25000, 250000 }

\* (detected crs, lease crs, equal_area_crs): to_crs needs a CRS on the frame
\* and a CRS as its argument.  The strip is the geometry as projected to the
\* area CRS, so a successful reprojection leaves the cells as they are.
CRSCases ==
    { << "EPSG:32643", "EPSG:4326", "EPSG:3857" >>,
      << NoneCRS, "EPSG:4326", "EPSG:3857" >>,
      << "EPSG:4326", "EPSG:4326", "10.0" >> }

ValidCRS(c) == c \in { "EPSG:4326", "EPSG:32643", "EPSG:3857" }

Init ==
    /\ detected_polygons \in DetectedFrames
    /\ lease_polygons \in LeaseFrames
    /\ \E c \in CRSCases :
          /\ detected_crs = c[1]
          /\ lease_crs = c[2]
          /\ equal_area_crs = c[3]
    /\ buffer_meters \in 0 .. MaxBuffer
    /\ strip_height \in StripHeights
    /\ pc = "start"
    /\ lease_union_buffered = {}
    /\ results = << >>
    /\ returned = << >>
    /\ raised = FALSE
    /\ log = << >>
    /\ summary = NoSummary
    /\ DetectorIdle
    /\ ServiceIdle

inputs == << detected_polygons, lease_polygons, detected_crs, lease_crs,
             equal_area_crs, buffer_meters, strip_height >>

-----------------------------------------------------------------------------
(* IllegalMiningDetector.compare_with_lease *)

\* DataFrame.empty
IsEmpty(frame) == Len(frame) = 0

\* the to_crs calls of lines 173-178 all succeed
ReprojectionSucceeds ==
    /\ ValidCRS(detected_crs)
    /\ ValidCRS(lease_crs)
    /\ ValidCRS(equal_area_crs)

\* lines 168-170: empty input, an empty frame is returned
ReturnEmptyInput ==
    /\ pc = "start"
    /\ IsEmpty(detected_polygons) \/ IsEmpty(lease_polygons)
    /\ log' = log \o << "info", "warning" >>
    /\ returned' = << >>
    /\ pc' = "returned"
    /\ UNCHANGED << detector, service, inputs, lease_union_buffered, results, raised, summary >>

\* lines 172-178 raise, lines 212-214 catch: an empty frame is returned
SwallowBatchFailure ==
    /\ pc = "start"
    /\ ~ (IsEmpty(detected_polygons) \/ IsEmpty(lease_polygons))
    /\ ~ ReprojectionSucceeds
    /\ log' = log \o << "info", "error" >>
    /\ returned' = << >>
    /\ pc' = "returned"
    /\ UNCHANGED << detector, service, inputs, lease_union_buffered, results, raised, summary >>

\* variant: the buffer applied inward
Mut_BufferedUnion_inward(leases, buffer) ==
    IF buffer > 0
    THEN { c \in UnaryUnion(leases) :
             \A u \in Grid : Abs(c - u) <= buffer => u \in UnaryUnion(leases) }
    ELSE UnaryUnion(leases)

\* lines 180-187
BufferedUnion(leases, buffer) ==
    IF buffer > 0 THEN BufferGeom(UnaryUnion(leases), buffer) ELSE UnaryUnion(leases)

\* lines 172-190: reproject, union, buffer, results = []
Prepare ==
    /\ pc = "start"
    /\ ~ (IsEmpty(detected_polygons) \/ IsEmpty(lease_polygons))
    /\ ReprojectionSucceeds
    /\ lease_union_buffered' = BufferedUnion(lease_polygons, buffer_meters)
    /\ results' = << >>
    /\ log' = log \o << "info" >>
    /\ pc' = "loop"
    /\ UNCHANGED << detector, service, inputs, returned, raised, summary >>

\* lines 192-196: one iteration of the loop over detected_ea.iterrows()
AnalyzeNext ==
    /\ pc = "loop"
    /\ Len(results) < Len(detected_polygons)
    /\ LET detected_poly == detected_polygons[Len(results) + 1]
       IN  /\ results' = Append(results,
                   _analyze_single_polygon(detected_poly, lease_union_buffered,
                                           lease_polygons))
           /\ log' = IF AnalysisRaises(detected_poly) THEN Append(log, "error") ELSE log
    /\ UNCHANGED << detector, service, inputs, pc, lease_union_buffered, returned, raised, summary >>

\* variant: every row receives the columns of the first input row
Mut_MergeColumns_first(rows, frame) ==
    [k \in 1 .. Len(rows) |-> [id |-> frame[1].id] @@ rows[k]]

\* lines 204-207: columns of detected_polygons missing from the results are
\* copied over by position (.values)
MergeColumns(rows, frame) ==
    [k \in 1 .. Len(rows) |-> [id |-> frame[k].id] @@ rows[k]]

\* lines 198-210: frame built from results, reprojected back, columns merged
Finish ==
    /\ pc = "loop"
    /\ Len(results) = Len(detected_polygons)
    /\ returned' = MergeColumns(results, detected_polygons)
    /\ log' = Append(log, "info")
    /\ pc' = "returned"
    /\ UNCHANGED << detector, service, inputs, lease_union_buffered, results, raised, summary >>

\* the caller passes what it got to generate_summary_statistics
Summarize ==
    /\ pc = "returned"
    /\ summary' = generate_summary_statistics(returned)
    /\ pc' = "summarized"
    /\ UNCHANGED << detector, service, inputs, lease_union_buffered, results, returned, raised, log >>

Next ==
    \/ ReturnEmptyInput
    \/ SwallowBatchFailure
    \/ Prepare
    \/ AnalyzeNext
    \/ Finish
    \/ Summarize

Spec == Init /\ [][Next]_vars

-----------------------------------------------------------------------------
(* Properties of the classification records *)

\* row i has been analysed and its analysis did not fail
Analysed(i) == i \in 1 .. Len(results) /\ ~ AnalysisRaises(detected_polygons[i])

\* areas of polygon i against the buffered union, in m^2, from the geometry
PolyCells(i) == CellsOf(detected_polygons[i].geometry)
TotalM2(i) == strip_height * Cardinality(PolyCells(i))
InsideM2(i) == strip_height * Cardinality({ c \in PolyCells(i) : c \in lease_union_buffered })
OutsideM2(i) == strip_height * Cardinality({ c \in PolyCells(i) : c \notin lease_union_buffered })

\* overlap_pct >= k, for a polygon of positive area; overlap_pct = 0 otherwise
OverlapAtLeast(i, k) ==
    IF TotalM2(i) > 0 THEN InsideM2(i) * 100 >= k * TotalM2(i) ELSE 0 >= k

\* number of individual leases the polygon intersects
NumLeases(i) ==
    Cardinality({ k \in 1 .. Len(lease_polygons) :
                    Intersects(detected_polygons[i].geometry, lease_polygons[k].geometry) })

\* C1: a polygon analysed without failure is legal if its outside area is at
\* most 0.01 ha (100 m^2, inclusive), otherwise mixed if its overlap is at
\* least 80 %, otherwise illegal; no other status is produced.
C1_ClassificationRule ==
    \A i \in 1 .. Len(results) :
        Analysed(i) =>
            results[i].status =
                IF OutsideM2(i) <= 100 THEN "legal"
                ELSE IF OverlapAtLeast(i, 80) THEN "mixed"
                ELSE "illegal"

\* C1 witness: a polygon with exactly 0.01 ha outside is legal, next to one
\* that is not legal
C1_Witness ==
    /\ \E i \in 1 .. Len(results) :
          Analysed(i) /\ OutsideM2(i) = 100 /\ results[i].status = "legal"
    /\ \E i \in 1 .. Len(results) :
          Analysed(i) /\ OutsideM2(i) > 100 /\ results[i].status \in {"mixed", "illegal"}

\* the score before rounding, in units of 1e-4, from the geometry
ExpectedBase(i) ==
    IF OverlapAtLeast(i, 95) THEN 95
    ELSE IF OverlapAtLeast(i, 80) THEN 85
    ELSE IF OverlapAtLeast(i, 50) THEN 70
    ELSE 60
ExpectedAreaFactor(i) ==
    IF TotalM2(i) >= 100000 THEN 10 ELSE IF TotalM2(i) >= 10000 THEN 9 ELSE 8
ExpectedLeaseFactor(i) ==
    IF NumLeases(i) = 1 THEN 10 ELSE IF NumLeases(i) > 1 THEN 9 ELSE 8
ExpectedScore(i) == ExpectedBase(i) * ExpectedAreaFactor(i) * ExpectedLeaseFactor(i)

\* the polygon of scenarios B and C: no overlap with the buffered union, no
\* overlapping lease, total area of `ha` hectares
NoOverlapPolygon(i, ha) ==
    Analysed(i) /\ InsideM2(i) = 0 /\ NumLeases(i) = 0 /\ TotalM2(i) = ha * 10000

\* C2 as stated: the confidence of the record is the product base x areaFactor
\* x leaseFactor itself (0.432 for scenario B, 0.48 for scenario C).
C2_ConfidenceIsProduct ==
    \A i \in 1 .. Len(results) :
        Analysed(i) =>
            /\ results[i].confidence * 100 = ExpectedScore(i)
            /\ NoOverlapPolygon(i, 5) =>
                  results[i].status = "illegal" /\ results[i].confidence * 100 = 4320
            /\ NoOverlapPolygon(i, 50) => results[i].confidence * 100 = 4800

\* C2 as amended: the confidence of the record is that product rounded to two
\* decimals, in [0,1]: 0.43 (and status illegal) for scenario B, 0.48 for
\* scenario C.
C2_ConfidenceIsRoundedProduct ==
    \A i \in 1 .. Len(results) :
        Analysed(i) =>
            /\ results[i].confidence \in 0 .. 100
            /\ results[i].confidence * 100 - ExpectedScore(i) \in -50 .. 50
            /\ NoOverlapPolygon(i, 5) =>
                  results[i].status = "illegal" /\ results[i].confidence = 43
            /\ NoOverlapPolygon(i, 50) => results[i].confidence = 48

\* C2 witness: scenario B has been analysed, its score 0.432 reported as 0.43
C2_Witness ==
    \E i \in 1 .. Len(results) :
        /\ NoOverlapPolygon(i, 5)
        /\ ExpectedScore(i) = 4320
        /\ results[i].confidence = 43

\* the call met a failure outside the per-polygon analysis
BatchFailed ==
    /\ ~ (IsEmpty(detected_polygons) \/ IsEmpty(lease_polygons))
    /\ ~ ReprojectionSucceeds

Returned == pc \in {"returned", "summarized"}

\* C3: a batch-level failure reaches the caller as an exception; it is not
\* handed back as an ordinary frame like the one returned for empty input.
C3_BatchFailurePropagates ==
    (Returned /\ BatchFailed) => raised

\* the records of the run: the loop's list and the rows handed back
Records ==
    { results[i] : i \in 1 .. Len(results) } \cup { returned[i] : i \in 1 .. Len(returned) }

\* C4: a polygon whose analysis fails gets a record with all numeric fields 0,
\* no overlapping lease, status error and confidence 0, and the batch goes on:
\* the other polygons get the records of a run without the failing polygons.
C4_ErrorContained ==
    /\ \A i \in 1 .. Len(results) :
          AnalysisRaises(detected_polygons[i]) =>
              /\ results[i].total_area_ha = 0
              /\ results[i].inside_area_ha = 0
              /\ results[i].outside_area_ha = 0
              /\ results[i].overlap_percentage = 0
              /\ results[i].illegal_area_ha = 0
              /\ results[i].overlapping_leases = << >>
              /\ results[i].status = "error"
              /\ results[i].confidence = 0
    /\ LET good == SelectSeq(SubSeq(detected_polygons, 1, Len(results)),
                             LAMBDA p : ~ AnalysisRaises(p))
       IN  SelectSeq(results, LAMBDA r : r.status # "error") =
               [ k \in 1 .. Len(good) |->
                   _analyze_single_polygon(
                       good[k], BufferedUnion(lease_polygons, buffer_meters),
                       lease_polygons) ]
    /\ (Returned /\ results # << >>) =>
          /\ Len(returned) = Len(detected_polygons)
          /\ \A i \in 1 .. Len(returned) : returned[i].status = results[i].status

\* C4 witness: a failing polygon was followed by one that was classified, and
\* both records were handed back
C4_Witness ==
    /\ Returned
    /\ Len(returned) = 2
    /\ AnalysisRaises(detected_polygons[1])
    /\ returned[1].status = "error"
    /\ returned[2].status \in {"legal", "mixed", "illegal"}

\* C5: for non-empty inputs the caller gets one record per input polygon, in
\* input order.
C5_OneRecordPerPolygon ==
    (Returned /\ ~ IsEmpty(detected_polygons) /\ ~ IsEmpty(lease_polygons)) =>
        /\ Len(returned) = Len(detected_polygons)
        /\ \A i \in 1 .. Len(returned) :
              /\ returned[i].id = detected_polygons[i].id
              /\ returned[i].geometry = detected_polygons[i].geometry

EmptyInput == IsEmpty(detected_polygons) \/ IsEmpty(lease_polygons)

\* C6: on an empty polygon or lease collection no exception is raised, the
\* record set is empty and every count, area and rate of its summary is 0.
C6_EmptyInput ==
    EmptyInput =>
        /\ ~ raised
        /\ Returned => returned = << >>
        /\ pc = "summarized" =>
              /\ summary.total_detected_areas = 0
              /\ summary.legal_areas = 0
              /\ summary.illegal_areas = 0
              /\ summary.mixed_areas = 0
              /\ summary.total_detected_area_ha = 0
              /\ summary.legal_area_ha = 0
              /\ summary.illegal_area_ha = 0
              /\ summary.compliance_rate_percent = 0
              /\ summary.violation_rate_percent = 0

\* C6 witness: polygons but no lease, summarised
C6_Witness ==
    /\ pc = "summarized"
    /\ IsEmpty(lease_polygons)
    /\ ~ IsEmpty(detected_polygons)
    /\ summary.total_detected_areas = 0

\* scenario D: 85 % inside one lease, 1.5 ha outside
ScenarioD(i) ==
    /\ Analysed(i)
    /\ NumLeases(i) = 1
    /\ OutsideM2(i) = 15000
    /\ InsideM2(i) * 100 = 85 * TotalM2(i)

\* C7: illegal_area_ha is the record's outside_area_ha when the status is
\* illegal or mixed and 0 when it is legal or error; scenario D is mixed with
\* illegal_area_ha = 1.5.
C7_IllegalArea ==
    /\ \A r \in Records :
          /\ r.status \in {"illegal", "mixed"} => r.illegal_area_ha = r.outside_area_ha
          /\ r.status \in {"legal", "error"} => r.illegal_area_ha = 0
    /\ \A i \in 1 .. Len(results) :
          ScenarioD(i) => results[i].status = "mixed" /\ results[i].illegal_area_ha = 150

\* C7 witness: scenario D has been analysed
C7_Witness ==
    \E i \in 1 .. Len(results) :
        ScenarioD(i) /\ results[i].status = "mixed" /\ results[i].outside_area_ha = 150

\* the polygon lies fully inside the buffered union (outside 0, overlap 100 %)
FullyInside(i) == Analysed(i) /\ TotalM2(i) > 0 /\ OutsideM2(i) = 0

\* C8 as stated: a polygon fully inside the buffered union is legal with
\* confidence >= 0.85.
C8_InsideConfident ==
    \A i \in 1 .. Len(results) :
        FullyInside(i) => results[i].status = "legal" /\ results[i].confidence >= 85

\* C8 as amended: a polygon fully inside the buffered union is legal with
\* confidence >= 0.61; the confidence is >= 0.85 when the polygon has at least
\* 1 ha and intersects exactly one lease.
C8_InsideLegal ==
    \A i \in 1 .. Len(results) :
        FullyInside(i) =>
            /\ results[i].status = "legal"
            /\ results[i].confidence >= 61
            /\ (TotalM2(i) >= 10000 /\ NumLeases(i) = 1) => results[i].confidence >= 85

\* C8 witness: a polygon fully inside the buffered union with confidence 0.61
C8_Witness ==
    \E i \in 1 .. Len(results) :
        FullyInside(i) /\ results[i].status = "legal" /\ results[i].confidence = 61

\* C9: the reported inside and outside areas add up to the reported total
\* area to within 0.01 ha.
C9_AreaPartition ==
    \A r \in Records :
        r.inside_area_ha + r.outside_area_ha - r.total_area_ha \in -1 .. 1

\* C9 witness: a polygon cut by the boundary whose rounded parts miss the
\* rounded total by 0.01 ha
C9_Witness ==
    \E i \in 1 .. Len(results) :
        /\ Analysed(i)
        /\ InsideM2(i) > 0
        /\ OutsideM2(i) > 0
        /\ results[i].inside_area_ha + results[i].outside_area_ha
               # results[i].total_area_ha

\* C10: overlap_percentage is in [0,100] and confidence in [0,1] in every
\* record, error records included.
C10_Ranges ==
    \A r \in Records :
        /\ r.overlap_percentage \in 0 .. 1000
        /\ r.confidence \in 0 .. 100

\* C10 witness: an error record next to a record with 100 % overlap
C10_Witness ==
    /\ \E r \in Records : r.status = "error"
    /\ \E r \in Records : r.status # "error" /\ r.overlap_percentage = 1000

-----------------------------------------------------------------------------
(* Properties of the summary statistics *)

\* the summary of a non-empty returned frame has been computed
SummarizedNonEmpty == pc = "summarized" /\ Len(returned) > 0

\* sum of column col over the returned records whose status is in sts
ReturnedSum(col, sts) ==
    SumFrom([k \in 1 .. Len(returned) |->
                IF returned[k].status \in sts THEN returned[k][col] ELSE 0], 1)

AllStatuses == { "legal", "illegal", "mixed", "error" }

\* the areas and counts of the summary are the sums and the sizes of the
\* status partition of the returned records
SummaryTotalsExact ==
    /\ summary.total_detected_area_ha = ReturnedSum("total_area_ha", AllStatuses)
    /\ summary.legal_area_ha = ReturnedSum("total_area_ha", { "legal" })
    /\ summary.illegal_area_ha = ReturnedSum("illegal_area_ha", { "illegal", "mixed" })
    /\ summary.total_detected_areas = Len(returned)
    /\ \A st \in { "legal", "illegal", "mixed" } :
           summary[st \o "_areas"] =
               Cardinality({ k \in 1 .. Len(returned) : returned[k].status = st })

\* rate (tenths of a percent) is part / whole * 100 to within half a tenth
RateWithinRounding(rate, part, whole) ==
    Abs(rate * whole - part * 1000) * 2 <= whole

\* C11 as stated: for a non-empty record set the areas are the sums over the
\* status partition, the counts are the partition sizes, and the two rates
\* are exactly legal_area_ha / total * 100 and illegal_area_ha / total * 100
\* (0 when the total area is 0).
C11_SummaryExactRates ==
    SummarizedNonEmpty =>
        /\ SummaryTotalsExact
        /\ IF summary.total_detected_area_ha > 0
           THEN /\ summary.compliance_rate_percent * summary.total_detected_area_ha
                       = summary.legal_area_ha * 1000
                /\ summary.violation_rate_percent * summary.total_detected_area_ha
                       = summary.illegal_area_ha * 1000
           ELSE /\ summary.compliance_rate_percent = 0
                /\ summary.violation_rate_percent = 0

\* C11 as amended: the areas and counts are as stated; the two rates are
\* legal_area_ha / total * 100 and illegal_area_ha / total * 100 rounded to
\* one decimal, and 0 when the total area is 0.
C11_SummaryRoundedRates ==
    SummarizedNonEmpty =>
        /\ SummaryTotalsExact
        /\ IF summary.total_detected_area_ha > 0
           THEN /\ RateWithinRounding(summary.compliance_rate_percent,
                                      summary.legal_area_ha,
                                      summary.total_detected_area_ha)
                /\ RateWithinRounding(summary.violation_rate_percent,
                                      summary.illegal_area_ha,
                                      summary.total_detected_area_ha)
           ELSE /\ summary.compliance_rate_percent = 0
                /\ summary.violation_rate_percent = 0

\* C11 witness: a summary over a legal and an illegal record whose compliance
\* rate is not a whole number of tenths of a percent
C11_Witness ==
    /\ SummarizedNonEmpty
    /\ summary.legal_areas = 1
    /\ summary.illegal_areas = 1
    /\ summary.illegal_area_ha > 0
    /\ summary.compliance_rate_percent * summary.total_detected_area_ha
           # summary.legal_area_ha * 1000

\* C12: every summary carries an average_confidence; it is the mean of
\* confidence over all records, error records counting 0 (to within the
\* two-decimal rounding of the report), and it is 0 for an empty record set.
C12_AverageConfidenceAlways ==
    pc = "summarized" =>
        /\ "average_confidence" \in DOMAIN summary
        /\ IF Len(returned) = 0
           THEN summary.average_confidence = 0
           ELSE Abs(summary.average_confidence * Len(returned)
                        - ReturnedSum("confidence", AllStatuses)) * 2
                    <= Len(returned)

-----------------------------------------------------------------------------
(* Two runs of compare_with_lease *)

\* the frame one call of compare_with_lease returns for the given frames and
\* buffer, under the CRS arguments and raster of the current run
compare_with_lease(detected, leases, buffer) ==
    IF IsEmpty(detected) \/ IsEmpty(leases) THEN << >>
    ELSE IF ~ ReprojectionSucceeds THEN << >>
    ELSE LET union_buffered == BufferedUnion(leases, buffer)
         IN  MergeColumns(
                 [k \in 1 .. Len(detected) |->
                     _analyze_single_polygon(detected[k], union_buffered, leases)],
                 detected)

\* the orderings of n rows
Perms(n) == { p \in [1 .. n -> 1 .. n] : \A i, j \in 1 .. n : i # j => p[i] # p[j] }

\* frame with its rows taken in the order p
Permute(frame, p) == [k \in 1 .. Len(frame) |-> frame[p[k]]]

\* C13: a second run on the same polygons in the same or any permuted order,
\* with the same leases and buffer, returns for each polygon the record the
\* first run returned, the records being reordered like the input.
C13_OrderIndependent ==
    Returned =>
        \A p \in Perms(Len(detected_polygons)) :
            compare_with_lease(Permute(detected_polygons, p), lease_polygons,
                               buffer_meters)
                = Permute(returned, p)

\* C13 witness: a returned frame of two polygons with different statuses, one
\* of them intersecting a lease, so that swapping them changes the frame
C13_Witness ==
    /\ Returned
    /\ Len(returned) = 2
    /\ returned[1].status # returned[2].status
    /\ returned[1].num_overlapping_leases # returned[2].num_overlapping_leases

-----------------------------------------------------------------------------
(* Properties of overlapping_leases *)

\* the positions, in lease order, of the individual leases polygon i intersects
IntersectingLeases(i) ==
    { k \in 1 .. Len(lease_polygons) :
        Intersects(detected_polygons[i].geometry, lease_polygons[k].geometry) }

\* the position in the lease frame of the j-th lease polygon i intersects
NthIntersecting(i, j) ==
    CHOOSE k \in IntersectingLeases(i) :
        Cardinality({ m \in IntersectingLeases(i) : m <= k }) = j

\* area in m^2 shared by polygon i and the individual lease at position k
SharedM2(i, k) ==
    strip_height * Cardinality(PolyCells(i) \cap CellsOf(lease_polygons[k].geometry))

\* one entry per intersecting individual lease, in lease order, with the
\* lease's id and name; the entries are what leaseFactor counted
EntriesMatchLeases(i) ==
    LET entries == results[i].overlapping_leases
    IN  /\ Len(entries) = Cardinality(IntersectingLeases(i))
        /\ results[i].num_overlapping_leases = Len(entries)
        /\ \A j \in 1 .. Len(entries) :
               /\ entries[j].lease_id = lease_polygons[NthIntersecting(i, j)].lease_id
               /\ entries[j].lease_name = lease_polygons[NthIntersecting(i, j)].lease_name

\* C20 as stated: overlapping_leases has one entry per individual lease that
\* intersects the polygon, in lease order, with the lease's id and name and
\* overlap_area_ha exactly area(P /\ L) / 10000.
C20_OverlapEntriesExact ==
    \A i \in 1 .. Len(results) :
        Analysed(i) =>
            /\ EntriesMatchLeases(i)
            /\ \A j \in 1 .. Len(results[i].overlapping_leases) :
                   results[i].overlapping_leases[j].overlap_area_ha * 100
                       = SharedM2(i, NthIntersecting(i, j))

\* C20 as amended: the same entries, overlap_area_ha being
\* area(P /\ L) / 10000 rounded to two decimals.
C20_OverlapEntriesRounded ==
    \A i \in 1 .. Len(results) :
        Analysed(i) =>
            /\ EntriesMatchLeases(i)
            /\ \A j \in 1 .. Len(results[i].overlapping_leases) :
                   Abs(results[i].overlapping_leases[j].overlap_area_ha * 100
                           - SharedM2(i, NthIntersecting(i, j))) <= 50

\* C20 witness: a polygon that intersects two individual leases, listed in
\* lease order with the second lease of the catalogue first, one overlap not
\* being a whole number of hundredths of a hectare
C20_Witness ==
    \E i \in 1 .. Len(results) :
        /\ Analysed(i)
        /\ Len(results[i].overlapping_leases) = 2
        /\ results[i].overlapping_leases[1].lease_id = "ML-2"
        /\ results[i].overlapping_leases[2].lease_id = "ML-1"
        /\ SharedM2(i, 2) % 100 # 0

-----------------------------------------------------------------------------
(* Rasters and binary masks                                                *)
(*                                                                         *)
(* A raster of shape << rows, cols >> has the pixels << r, c >>; a binary  *)
(* mask is held as the set of its pixels equal to 1.                       *)

RasterRows == 8
RasterCols == 8

Pixels(shp) == (0 .. shp[1] - 1) \X (0 .. shp[2] - 1)

\* the pixels r1..r2 x c1..c2
Block(r1, r2, c1, c2) == (r1 .. r2) \X (c1 .. c2)

\* pixels sharing an edge (connectivity 1 in 2-D)
Adjacent4(p, q) == Abs(p[1] - q[1]) + Abs(p[2] - q[2]) = 1

RECURSIVE Grow(_, _)
\* the pixels of m connected to the pixels s through pixels of m
Grow(m, s) ==
    LET t == s \cup { p \in m : \E q \in s : Adjacent4(p, q) }
    IN  IF t = s THEN s ELSE Grow(m, t)

\* the first pixel of m in raster scan order
ScanFirst(m) ==
    CHOOSE p \in m : \A q \in m : p[1] < q[1] \/ (p[1] = q[1] /\ p[2] <= q[2])

RECURSIVE Regions(_)
\* the connected regions of m, by first pixel in scan order
Regions(m) ==
    IF m = {} THEN << >>
    ELSE LET r == Grow(m, { ScanFirst(m) })
         IN  << r >> \o Regions(m \ r)

-----------------------------------------------------------------------------
(* Decimal numbers                                                         *)
(*                                                                         *)
(* The polygonizer multiplies areas by 111000 * 111000, so its floats are  *)
(* held as exact non-negative decimals [m, e] standing for m * 10^e.       *)

Dec(m, e) == [m |-> m, e |-> e]

RECURSIVE Pow10(_)
Pow10(k) == IF k = 0 THEN 1 ELSE 10 * Pow10(k - 1)

RECURSIVE Digits(_)
\* number of decimal digits of n >= 0
Digits(n) == IF n < 10 THEN 1 ELSE 1 + Digits(n \div 10)

DecTimes(x, y) == Dec(x.m * y.m, x.e + y.e)

DecPlus(x, y) ==
    LET e == Min(x.e, y.e)
    IN  Dec(x.m * Pow10(x.e - e) + y.m * Pow10(y.e - e), e)

DecAbs(x) == Dec(Abs(x.m), x.e)

\* x < y
DecLess(x, y) ==
    IF y.m = 0 THEN FALSE
    ELSE IF x.m = 0 THEN TRUE
    ELSE IF Digits(x.m) + x.e # Digits(y.m) + y.e
         THEN Digits(x.m) + x.e < Digits(y.m) + y.e
    ELSE LET e == Min(x.e, y.e)
         IN  x.m * Pow10(x.e - e) < y.m * Pow10(y.e - e)

DecEq(x, y) == ~ DecLess(x, y) /\ ~ DecLess(y, x)

\* round(x, places)
DecRound(x, places) ==
    IF x.e >= - places THEN x
    ELSE Dec(RoundHalfEven(x.m, Pow10(- places - x.e)), - places)

-----------------------------------------------------------------------------
(* MiningDetector.polygonize_mask                                          *)
(*                                                                         *)
(* A polygon traced from the mask is held as the set of pixels of its      *)
(* region; its area is (number of pixels) * |a * e| and its length is the  *)
(* length of the pixel edges on its boundary, holes included, in the       *)
(* units of the CRS.  compactness (line 309) involves pi and is not part   *)
(* of the modelled properties.                                             *)

\* self.thresholds['min_area_ha'] = 0.001
thresholds_min_area_ha == Dec(1, -3)

\* min_area_ha = None
NoneArea == Dec(-1, 0)

\* the factor 111000.0 and the divisor 10000.0 of lines 301-308
DegreeMetres == Dec(111, 3)
PerTenThousand == Dec(1, -4)
TimesTenThousand == Dec(1, 4)

\* pixel edges of the region's boundary that run along a row / along a column
RowEdges(region) ==
    Cardinality({ x \in region \X { -1, 1 } : << x[1][1] + x[2], x[1][2] >> \notin region })
ColEdges(region) ==
    Cardinality({ x \in region \X { -1, 1 } : << x[1][1], x[1][2] + x[2] >> \notin region })

\* poly.area and poly.length, in the units of the CRS
PolyArea(region, t) ==
    DecAbs(DecTimes(Dec(Cardinality(region), 0), DecTimes(t.a, t.e)))
PolyLength(region, t) ==
    DecPlus(DecTimes(Dec(RowEdges(region), 0), DecAbs(t.a)),
            DecTimes(Dec(ColEdges(region), 0), DecAbs(t.e)))

\* line 301: (poly.area * 111000.0 * 111000.0) / 10000.0
AreaHa(poly_area) ==
    DecTimes(DecTimes(DecTimes(poly_area, DegreeMetres), DegreeMetres), PerTenThousand)

\* variant: every polygon is numbered 1
Mut_MiningId_one(n) == "mining_1"

\* line 310: f"mining_{len(polygons)+1}", n being len(polygons)
MiningId(n) == "mining_" \o ToString(n + 1)

\* lines 305-311: the properties of a kept polygon, n polygons being kept so far
PolygonProperties(region, t, n) ==
    LET area_ha == AreaHa(PolyArea(region, t))
    IN  [ area_ha |-> DecRound(area_ha, 2),
          area_m2 |-> DecRound(DecTimes(area_ha, TimesTenThousand), 0),
          perimeter_m |-> DecRound(DecTimes(PolyLength(region, t), DegreeMetres), 0),
          mining_id |-> MiningId(n) ]

\* a region whose boundary passes twice through a pixel corner: two of its
\* pixels meet only diagonally there
Pinched(region) ==
    \E p \in region : \E d \in { -1, 1 } :
        /\ << p[1] + 1, p[2] + d >> \in region
        /\ << p[1] + 1, p[2] >> \notin region
        /\ << p[1], p[2] + d >> \notin region

\* what rasterio.features.shapes(mask, mask=mask_bool) can yield: one shape of
\* value 1 per connected region of the mask.  The code fixes neither the order
\* in which the library yields the regions nor whether the ring traced around a
\* pinched region is a valid polygon, so every order is possible and a pinched
\* region may come out invalid.
ShapeStreams(m) ==
    LET regs == Regions(m)
        n == Len(regs)
    IN  { [k \in 1 .. n |-> [region |-> regs[p[k]], value |-> 1, is_valid |-> v[k]]] :
            << p, v >> \in { x \in Perms(n) \X [1 .. n -> BOOLEAN] :
                               \A k \in 1 .. n : x[2][k] \/ Pinched(regs[x[1][k]]) } }

PolygonizeMasks ==
    { {},
      { << 0, 0 >> },
      Pixels(<< RasterRows, RasterCols >>),
      { << 0, 0 >> } \cup Block(0, 0, 2, 4) \cup Block(2, 3, 0, 1),
      Block(0, 0, 1, 3) \cup { << 1, 1 >>, << 1, 3 >>, << 2, 2 >>, << 2, 3 >> }
          \cup { << 0, 5 >> } \cup Block(4, 5, 0, 2),
      Block(1, 3, 1, 3) \ { << 2, 2 >> } }

\* (crs, transform): geographic rasters with pixels of 2e-5, 5e-5 and 1e-4
\* degrees, and a projected raster with pixels of 10 m
GeoreferenceCases ==
    { << "EPSG:4326", [a |-> Dec(2, -5), e |-> Dec(-2, -5)] >>,
      << "EPSG:4326", [a |-> Dec(5, -5), e |-> Dec(-5, -5)] >>,
      << "EPSG:4326", [a |-> Dec(10, -5), e |-> Dec(-10, -5)] >>,
      << "EPSG:32643", [a |-> Dec(10, 0), e |-> Dec(-10, 0)] >> }

MinAreaArguments == { NoneArea, Dec(4, -3), Dec(1, -2) }

PolygonizeInit ==
    /\ ClassifierIdle
    /\ ServiceIdle
    /\ raster_shape = << RasterRows, RasterCols >>
    /\ bands = << >>
    /\ indices = << >>
    /\ mining_mask = {}
    /\ cleaned_mask = {}
    /\ mask \in PolygonizeMasks
    /\ \E g \in GeoreferenceCases : crs = g[1] /\ transform = g[2]
    /\ min_area_ha \in MinAreaArguments
    /\ shapes = << >>
    /\ shape_index = 0
    /\ polygons = << >>
    /\ properties = << >>
    /\ polygons_gdf = << >>
    /\ dpc = "polygonize"

\* lines 282-292: default threshold, empty lists, the shapes generator
PolygonizeBegin ==
    /\ dpc = "polygonize"
    /\ min_area_ha' = IF min_area_ha = NoneArea THEN thresholds_min_area_ha
                      ELSE min_area_ha
    /\ polygons' = << >>
    /\ properties' = << >>
    /\ shapes' \in ShapeStreams(mask)
    /\ shape_index' = 0
    /\ dpc' = "shapes"
    /\ UNCHANGED << classifier, service, raster_shape, bands, indices, mining_mask,
                    cleaned_mask, mask, transform, crs, polygons_gdf >>

\* the shape is dropped by one of the `continue` statements
Dropped(candidate, t, limit) ==
    \/ candidate.value # 1
    \/ ~ candidate.is_valid
    \/ candidate.region = {}
    \/ (limit # NoneArea /\ DecLess(AreaHa(PolyArea(candidate.region, t)), limit))

\* lines 292-312: one iteration of the loop over the shapes
PolygonizeNext ==
    /\ dpc = "shapes"
    /\ shape_index < Len(shapes)
    /\ LET candidate == shapes[shape_index + 1]
       IN  IF Dropped(candidate, transform, min_area_ha)
           THEN UNCHANGED << polygons, properties >>
           ELSE /\ properties' = Append(properties,
                      PolygonProperties(candidate.region, transform, Len(polygons)))
                /\ polygons' = Append(polygons, candidate.region)
    /\ shape_index' = shape_index + 1
    /\ UNCHANGED << classifier, service, raster_shape, bands, indices, mining_mask,
                    cleaned_mask, mask, transform, crs, min_area_ha, shapes,
                    polygons_gdf, dpc >>

\* lines 314-320: the frame of the kept polygons, or an empty frame
PolygonizeReturn ==
    /\ dpc = "shapes"
    /\ shape_index = Len(shapes)
    /\ polygons_gdf' = [k \in 1 .. Len(polygons) |->
                           [geometry |-> polygons[k]] @@ properties[k]]
    /\ dpc' = "returned"
    /\ UNCHANGED << classifier, service, raster_shape, bands, indices, mining_mask,
                    cleaned_mask, mask, transform, crs, min_area_ha, shapes,
                    shape_index, polygons, properties >>

PolygonizeStep ==
    \/ PolygonizeBegin
    \/ PolygonizeNext
    \/ PolygonizeReturn

PolygonizeSpec == PolygonizeInit /\ [][PolygonizeStep]_vars

-----------------------------------------------------------------------------
(* Properties of the polygons returned by polygonize_mask *)

\* polygonize_mask has returned its frame
PolygonsReturned == dpc = "returned"

\* C14: every polygon returned by polygonize_mask carries an area_ha that is
\* at least the min_area_ha in force.
C14_AreaAtLeastMin ==
    PolygonsReturned =>
        \A k \in 1 .. Len(polygons_gdf) :
            ~ DecLess(polygons_gdf[k].area_ha, min_area_ha)

\* a CRS whose unit is the degree
IsGeographic(c) == c = "EPSG:4326"

\* area of a region in the units of the CRS, squared
NativeArea(region) == PolyArea(region, transform)

\* C16: area_ha is the area in degrees^2 * 111000^2 / 10000 and perimeter_m
\* the length in degrees * 111000 only for a geographic CRS; for a projected
\* CRS area_ha is the area in m^2 / 10000 and perimeter_m the length in m
\* (each as rounded for the record).
C16_DegreeFactorOnlyIfGeographic ==
    PolygonsReturned =>
        \A k \in 1 .. Len(polygons_gdf) :
            LET row == polygons_gdf[k]
                area == NativeArea(row.geometry)
                length == PolyLength(row.geometry, transform)
            IN  IF IsGeographic(crs)
                THEN /\ DecEq(row.area_ha,
                              DecRound(DecTimes(area, Dec(1232100, 0)), 2))
                     /\ DecEq(row.perimeter_m,
                              DecRound(DecTimes(length, Dec(111000, 0)), 0))
                ELSE /\ DecEq(row.area_ha, DecRound(DecTimes(area, Dec(1, -4)), 2))
                     /\ DecEq(row.perimeter_m, DecRound(length, 0))

\* C19: the polygons kept so far, and the rows returned, carry the ids
\* mining_1, mining_2, ... in the order they were kept, whatever was dropped
\* in between.
C19_SequentialIds ==
    /\ \A k \in 1 .. Len(properties) :
           properties[k].mining_id = "mining_" \o ToString(k)
    /\ PolygonsReturned =>
           /\ Len(polygons_gdf) = Len(polygons)
           /\ \A k \in 1 .. Len(polygons_gdf) :
                  polygons_gdf[k].mining_id = "mining_" \o ToString(k)
           /\ \A j, k \in 1 .. Len(polygons_gdf) :
                  j # k => polygons_gdf[j].mining_id # polygons_gdf[k].mining_id

\* the shape at position i of the stream was dropped
DroppedAt(i) == Dropped(shapes[i], transform, min_area_ha)

\* C19 witness: two polygons returned as mining_1 and mining_2, an invalid
\* shape having been dropped between them
C19_Witness ==
    /\ PolygonsReturned
    /\ Len(polygons_gdf) = 2
    /\ polygons_gdf[2].mining_id = "mining_2"
    /\ \E i, j, k \in 1 .. Len(shapes) :
           /\ i < j /\ j < k
           /\ ~ DroppedAt(i) /\ ~ DroppedAt(k)
           /\ ~ shapes[j].is_valid

-----------------------------------------------------------------------------
(* MiningDetector._create_mining_mask                                      *)
(*                                                                         *)
(* An index value is the fraction [num, den] standing for num / den; a     *)
(* zero den stands for the float the division would give (inf, -inf or     *)
(* nan by the sign of num).  Thresholds are held in thousandths.           *)

Frac(n, d) == [num |-> n, den |-> d]

\* x < t / 1000 and x > t / 1000 as floats compare (nan compares false)
FracLess(x, t) ==
    IF x.den > 0 THEN x.num * 1000 < t * x.den
    ELSE IF x.den < 0 THEN x.num * 1000 > t * x.den
    ELSE x.num < 0
FracGreater(x, t) ==
    IF x.den > 0 THEN x.num * 1000 > t * x.den
    ELSE IF x.den < 0 THEN x.num * 1000 < t * x.den
    ELSE x.num > 0

\* self.thresholds, lines 31-34
thresholds == [ndvi |-> 200, bsi |-> 300, ndbi |-> 100, ndwi |-> 200]

\* lines 169-177: the seven masks, for one pixel
Conditions(ix) ==
    << FracLess(ix.ndvi, thresholds.ndvi),
       FracGreater(ix.bsi, thresholds.bsi),
       FracLess(ix.ndwi, thresholds.ndwi),
       FracGreater(ix.ndbi, thresholds.ndbi),
       FracLess(ix.savi, 100),
       FracLess(ix.evi, 100),
       FracLess(ix.nbr, 100) >>

\* line 191: np.sum(conditions, axis=0)
ConditionCount(ix) == Cardinality({ k \in 1 .. 7 : Conditions(ix)[k] })

\* variant: three conditions are enough
Mut_VoteMask_three(ix) == ConditionCount(ix) >= 3

\* line 194: mining_mask = condition_count >= 4
VoteMask(ix) == ConditionCount(ix) >= 4

\* lines 198-202
MiningSignature(ix) ==
    /\ FracLess(ix.ndvi, 150)
    /\ FracGreater(ix.bsi, 400)
    /\ FracGreater(ix.ndbi, 200)

\* lines 205-207: final_mask, as the set of pixels equal to 1
_create_mining_mask(ind) ==
    { p \in DOMAIN ind : VoteMask(ind[p]) \/ MiningSignature(ind[p]) }

\* index values on both sides of, and exactly at, every threshold
IndexVectors ==
    { [ ndvi |-> Frac(a, 1000), bsi |-> Frac(b, 1000), ndbi |-> Frac(c, 1000),
        ndwi |-> Frac(w, 1000), mndwi |-> Frac(0, 1000), savi |-> Frac(s, 1000),
        evi |-> Frac(v, 1000), nbr |-> Frac(n, 1000) ] :
        a \in { 100, 150, 200 }, b \in { 300, 400, 500 }, c \in { 100, 200, 300 },
        w \in { 100, 200 }, s \in { 50, 100 }, v \in { 50, 100 }, n \in { 50, 100 } }

\* a pixel meeting all seven conditions, none, and exactly three of them
\* without the signature
AllSeven ==
    [ ndvi |-> Frac(100, 1000), bsi |-> Frac(500, 1000), ndbi |-> Frac(300, 1000),
      ndwi |-> Frac(100, 1000), mndwi |-> Frac(0, 1000), savi |-> Frac(50, 1000),
      evi |-> Frac(50, 1000), nbr |-> Frac(50, 1000) ]
NoneOfSeven ==
    [ ndvi |-> Frac(200, 1000), bsi |-> Frac(300, 1000), ndbi |-> Frac(100, 1000),
      ndwi |-> Frac(200, 1000), mndwi |-> Frac(0, 1000), savi |-> Frac(100, 1000),
      evi |-> Frac(100, 1000), nbr |-> Frac(100, 1000) ]
ThreeUnsigned ==
    [ ndvi |-> Frac(200, 1000), bsi |-> Frac(300, 1000), ndbi |-> Frac(100, 1000),
      ndwi |-> Frac(200, 1000), mndwi |-> Frac(0, 1000), savi |-> Frac(50, 1000),
      evi |-> Frac(50, 1000), nbr |-> Frac(50, 1000) ]

VoteShape == << 1, 2 >>

\* index rasters of two pixels
IndexRasters ==
    { [p \in Pixels(VoteShape) |-> IF p[2] = 0 THEN x ELSE y] :
        x \in IndexVectors, y \in { AllSeven, NoneOfSeven, ThreeUnsigned } }

VoteInit ==
    /\ ClassifierIdle
    /\ ServiceIdle
    /\ raster_shape = VoteShape
    /\ bands = << >>
    /\ indices \in IndexRasters
    /\ mining_mask = {}
    /\ cleaned_mask = {}
    /\ mask = {}
    /\ transform = [a |-> 0, e |-> 0]
    /\ crs = NoneCRS
    /\ min_area_ha = [m |-> 0, e |-> 0]
    /\ shapes = << >>
    /\ shape_index = 0
    /\ polygons = << >>
    /\ properties = << >>
    /\ polygons_gdf = << >>
    /\ dpc = "indices"

\* generate_mask line 78: mining_mask = self._create_mining_mask(indices)
CreateMiningMask ==
    /\ dpc = "indices"
    /\ mining_mask' = _create_mining_mask(indices)
    /\ dpc' = "raw_mask"
    /\ UNCHANGED << classifier, service, raster_shape, bands, indices, cleaned_mask, mask,
                    transform, crs, min_area_ha, shapes, shape_index, polygons,
                    properties, polygons_gdf >>

VoteSpec == VoteInit /\ [][CreateMiningMask]_vars

-----------------------------------------------------------------------------
(* Properties of the raw mask *)

\* number of the seven conditions a pixel meets, read off its index values
\* in thousandths
Met(p) ==
    LET ix == indices[p]
    IN  Cardinality(
          { c \in { "ndvi", "ndwi" } : ix[c].num < 200 }
          \cup { c \in { "savi", "evi", "nbr" } : ix[c].num < 100 }
          \cup { c \in { "bsi" } : ix[c].num > 300 }
          \cup { c \in { "ndbi" } : ix[c].num > 100 })

\* the strict signature NDVI < 0.15, BSI > 0.4, NDBI > 0.2
Signed(p) ==
    /\ indices[p].ndvi.num < 150
    /\ indices[p].bsi.num > 400
    /\ indices[p].ndbi.num > 200

-----------------------------------------------------------------------------
(* MiningDetector._calculate_spectral_indices                              *)
(*                                                                         *)
(* generate_mask reads the bands as float32, so every sum, difference and  *)
(* product is rounded to the nearest float (ties to even).  float32 has a  *)
(* 24-bit significand and epsilon = 1e-8 is about 0.08 of the spacing of   *)
(* floats at 1.0.  The model keeps the structure on a smaller scale: a     *)
(* float has a significand of MantissaBits bits, values are held in units  *)
(* of 1/1024 (every multiple of the unit below 2^MantissaBits units is a   *)
(* float, like the subnormals), and epsilon is 11 units, 0.09 of the       *)
(* spacing at 1.0.  An index is the fraction of its rounded numerator and  *)
(* denominator; the rounding of the quotient itself is not modelled.       *)

MantissaBits == 4

\* 1.0 in units
One == 1024

\* epsilon = 1e-8, scaled like the format
epsilon == 11

RECURSIVE BitLength(_)
BitLength(n) == IF n = 0 THEN 0 ELSE 1 + BitLength(n \div 2)

RECURSIVE Pow2(_)
Pow2(k) == IF k = 0 THEN 1 ELSE 2 * Pow2(k - 1)

\* distance between neighbouring floats of magnitude q units
Spacing(q) ==
    IF BitLength(q) <= MantissaBits THEN 1 ELSE Pow2(BitLength(q) - MantissaBits)

\* the float nearest to n / d units, ties to even
Fl(n, d) ==
    LET a == Abs(n)
        u == Spacing(a \div d)
        r == RoundHalfEven(a, d * u) * u
    IN  IF n < 0 THEN - r ELSE r

\* x + y, x - y, 6 * x and 7.5 * x on floats
FlAdd(x, y) == Fl(x + y, 1)
FlSub(x, y) == Fl(x - y, 1)
FlTimes6(x) == Fl(6 * x, 1)
FlTimes7_5(x) == Fl(15 * x, 2)

\* variant: the denominator is left unguarded
Mut_Guarded_unguarded(s) == s

\* `s + epsilon`
Guarded(s) == FlAdd(s, epsilon)

\* line 142: nir + 6 * red - 7.5 * blue + 1 + epsilon
EviDenominator(b) ==
    Guarded(FlAdd(FlSub(FlAdd(b.nir, FlTimes6(b.red)), FlTimes7_5(b.blue)), One))

\* lines 121-145, for one pixel; savi carries the factor 1 + l = 3/2 and evi
\* the factor 2.5 = 5/2
_calculate_spectral_indices(b) ==
    [ ndvi |-> Frac(FlSub(b.nir, b.red), Guarded(FlAdd(b.nir, b.red))),
      bsi |-> Frac(FlSub(FlAdd(b.swir1, b.red), FlAdd(b.nir, b.blue)),
                   Guarded(FlAdd(FlAdd(b.swir1, b.red), FlAdd(b.nir, b.blue)))),
      ndbi |-> Frac(FlSub(b.swir1, b.nir), Guarded(FlAdd(b.swir1, b.nir))),
      ndwi |-> Frac(FlSub(b.green, b.nir), Guarded(FlAdd(b.green, b.nir))),
      mndwi |-> Frac(FlSub(b.green, b.swir1), Guarded(FlAdd(b.green, b.swir1))),
      savi |-> Frac(3 * FlSub(b.nir, b.red),
                    2 * FlAdd(FlAdd(b.nir, b.red), One \div 2)),
      evi |-> Frac(5 * FlSub(b.nir, b.red), 2 * EviDenominator(b)),
      nbr |-> Frac(FlSub(b.nir, b.swir2), Guarded(FlAdd(b.nir, b.swir2))) ]

\* reflectances in [0, 1] that are floats: 0, the smallest positive float,
\* epsilon, two values whose product with 7.5 rounds to 1.0 and just above
\* it, 0.5 and 1.0
BandValues == { v \in { 0, 1, epsilon, 144, 160, One \div 2, One } : Fl(v, 1) = v }
NarrowBandValues == { 0, 1, One }

IndexShape == << 1, 1 >>

BandRasters ==
    { [p \in Pixels(IndexShape) |->
          [blue |-> b[1], green |-> g, red |-> b[2], nir |-> b[3], swir1 |-> b[4],
           swir2 |-> s2]] :
        b \in BandValues \X BandValues \X BandValues \X BandValues,
        g \in NarrowBandValues, s2 \in NarrowBandValues }

IndexInit ==
    /\ ClassifierIdle
    /\ ServiceIdle
    /\ raster_shape = IndexShape
    /\ bands \in BandRasters
    /\ indices = << >>
    /\ mining_mask = {}
    /\ cleaned_mask = {}
    /\ mask = {}
    /\ transform = [a |-> 0, e |-> 0]
    /\ crs = NoneCRS
    /\ min_area_ha = [m |-> 0, e |-> 0]
    /\ shapes = << >>
    /\ shape_index = 0
    /\ polygons = << >>
    /\ properties = << >>
    /\ polygons_gdf = << >>
    /\ dpc = "bands"

\* generate_mask line 75: indices = self._calculate_spectral_indices(...)
CalculateIndices ==
    /\ dpc = "bands"
    /\ indices' = [p \in DOMAIN bands |-> _calculate_spectral_indices(bands[p])]
    /\ dpc' = "indices"
    /\ UNCHANGED << classifier, service, raster_shape, bands, mining_mask, cleaned_mask,
                    mask, transform, crs, min_area_ha, shapes, shape_index,
                    polygons, properties, polygons_gdf >>

IndexSpec == IndexInit /\ [][CalculateIndices]_vars

-----------------------------------------------------------------------------
(* Properties of the spectral indices *)

IndexNames == { "ndvi", "bsi", "ndbi", "ndwi", "mndwi", "savi", "evi", "nbr" }

\* C17: for band values in [0,1] no denominator of the eight indices is zero,
\* EVI's included: every denominator is at least epsilon in magnitude, so
\* every index is finite.
C17_IndicesFinite ==
    dpc = "indices" =>
        \A p \in DOMAIN indices : \A name \in IndexNames :
            /\ indices[p][name].den # 0
            /\ Abs(indices[p][name].den) >= epsilon

\* C17 witness: a pixel whose 7.5 * blue cancels nir + 6 * red + 1, so that
\* EVI's denominator is epsilon alone, and whose nir + red is 0
C17_Witness ==
    /\ dpc = "indices"
    /\ \E p \in DOMAIN bands :
           /\ bands[p].blue > 0
           /\ EviDenominator(bands[p]) = epsilon
           /\ indices[p].evi.den = 2 * epsilon
           /\ indices[p].ndvi.den = epsilon

-----------------------------------------------------------------------------
(* MiningDetector._clean_mask and the dilation and erosion of generate_mask *)
(*                                                                         *)
(* A footprint is the set of its offsets from its centre: np.ones((3, 3))  *)
(* is -1..1 in both axes, np.ones((5, 5)) is -2..2, and np.ones((2, 2)),   *)
(* centred by scipy on its element [1, 1], is -1..0.  Outside the raster   *)
(* skimage's erosion reads 1 and its dilation 0; scipy's binary_dilation   *)
(* and binary_erosion both read 0 (border_value=0).                        *)

\* min_size = 50  (pixels)
min_size == 50

Square(lo, hi) == (lo .. hi) \X (lo .. hi)

\* the mask s with its pixels listed one by one
Listed(s) == { p : p \in s }

\* variant: the dilation reads 1 outside the raster
Mut_Dilation_border(m, footprint, shp) ==
    Listed({ p \in Pixels(shp) :
               \E d \in footprint :
                   LET q == << p[1] - d[1], p[2] - d[2] >>
                   IN  q \in m \/ q \notin Pixels(shp) })

\* binary dilation, 0 outside the raster
Dilation(m, footprint, shp) ==
    Listed({ p \in Pixels(shp) :
               \E d \in footprint : << p[1] - d[1], p[2] - d[2] >> \in m })

\* binary erosion, reading border_value outside the raster
Erosion(m, footprint, shp, border_value) ==
    Listed({ p \in Pixels(shp) :
               \A d \in footprint :
                   LET q == << p[1] + d[1], p[2] + d[2] >>
                   IN  IF q \in Pixels(shp) THEN q \in m ELSE border_value })

\* skimage.morphology.binary_opening and binary_closing
BinaryOpening(m, footprint, shp) ==
    Dilation(Erosion(m, footprint, shp, TRUE), footprint, shp)
BinaryClosing(m, footprint, shp) ==
    Erosion(Dilation(m, footprint, shp), footprint, shp, TRUE)

\* skimage.morphology.remove_small_objects: the connected regions
\* (connectivity 1) of fewer than size pixels are cleared
RemoveSmallObjects(m, size) ==
    LET regs == Regions(m)
    IN  Listed(UNION { regs[k] : k \in { j \in DOMAIN regs :
                                            Cardinality(regs[j]) >= size } })

\* lines 209-225
_clean_mask(m, shp) ==
    LET denoised == RemoveSmallObjects(m, min_size)
        opened == BinaryOpening(denoised, Square(-1, 1), shp)
        closed == BinaryClosing(opened, Square(-2, 2), shp)
    IN  RemoveSmallObjects(closed, min_size)

\* shapes of the raster: the full raster, one row, one column, one pixel
CleanShapes ==
    { << RasterRows, RasterCols >>, << 1, RasterCols >>, << RasterRows, 1 >>,
      << 1, 1 >> }

\* raw masks: all 0, all 1, one pixel, blocks of 36 pixels and more with and
\* without a hole, a region of exactly min_size pixels with and without a
\* far pixel of noise, and a block touching no border
RawMasks(shp) ==
    IF shp # << RasterRows, RasterCols >>
    THEN { {}, Pixels(shp), { << 0, 0 >> } }
    ELSE { {}, Pixels(shp), { << 0, 0 >> } }
         \cup { Block(r1, r2, c1, c2) \ hole :
                  r1 \in { 0, 1 }, r2 \in { RasterRows - 2, RasterRows - 1 },
                  c1 \in { 0, 1 }, c2 \in { RasterCols - 2, RasterCols - 1 },
                  hole \in { {}, { << 3, 3 >> } } }
         \cup { Block(0, 6, 0, 6) \cup { << 7, 0 >> },
                Block(0, 6, 0, 6) \cup { << 7, 0 >>, << 0, 7 >> },
                Block(0, 4, 0, 7) \cup Block(6, 7, 2, 6) }

CleanInit ==
    /\ ClassifierIdle
    /\ ServiceIdle
    /\ raster_shape \in CleanShapes
    /\ bands = << >>
    /\ indices = << >>
    /\ mining_mask \in RawMasks(raster_shape)
    /\ cleaned_mask = {}
    /\ mask = {}
    /\ transform = [a |-> 0, e |-> 0]
    /\ crs = NoneCRS
    /\ min_area_ha = [m |-> 0, e |-> 0]
    /\ shapes = << >>
    /\ shape_index = 0
    /\ polygons = << >>
    /\ properties = << >>
    /\ polygons_gdf = << >>
    /\ dpc = "raw_mask"

\* generate_mask line 81: cleaned_mask = self._clean_mask(mining_mask)
CleanMask ==
    /\ dpc = "raw_mask"
    /\ cleaned_mask' = _clean_mask(mining_mask, raster_shape)
    /\ dpc' = "cleaned"
    /\ UNCHANGED << classifier, service, raster_shape, bands, indices, mining_mask, mask,
                    transform, crs, min_area_ha, shapes, shape_index, polygons,
                    properties, polygons_gdf >>

\* generate_mask line 86: binary_dilation(cleaned_mask, structure=np.ones((3, 3)))
DilateMask ==
    /\ dpc = "cleaned"
    /\ cleaned_mask' = Dilation(cleaned_mask, Square(-1, 1), raster_shape)
    /\ dpc' = "dilated"
    /\ UNCHANGED << classifier, service, raster_shape, bands, indices, mining_mask, mask,
                    transform, crs, min_area_ha, shapes, shape_index, polygons,
                    properties, polygons_gdf >>

\* generate_mask line 88: binary_erosion(cleaned_mask, structure=np.ones((2, 2)))
ErodeMask ==
    /\ dpc = "dilated"
    /\ cleaned_mask' = Erosion(cleaned_mask, Square(-1, 0), raster_shape, FALSE)
    /\ dpc' = "eroded"
    /\ UNCHANGED << classifier, service, raster_shape, bands, indices, mining_mask, mask,
                    transform, crs, min_area_ha, shapes, shape_index, polygons,
                    properties, polygons_gdf >>

CleanStep ==
    \/ CleanMask
    \/ DilateMask
    \/ ErodeMask

CleanSpec == CleanInit /\ [][CleanStep]_vars

-----------------------------------------------------------------------------
(* Properties of the cleaned mask *)

\* C18: applied to an all-0 raw mask of any shape, every stage of the cleanup
\* chain (_clean_mask, the 3x3 dilation, the 2x2 erosion) gives an all-0 mask.
C18_NothingFromNothing ==
    (mining_mask = {} /\ dpc \in { "cleaned", "dilated", "eroded" })
        => cleaned_mask = {}

\* C18 witness: the whole chain has run on an all-0 raw mask of the full
\* raster
C18_Witness ==
    /\ dpc = "eroded"
    /\ raster_shape = << RasterRows, RasterCols >>
    /\ mining_mask = {}
    /\ cleaned_mask = {}

-----------------------------------------------------------------------------
(* Properties of the buffer *)

\* the buffers a run could have been given instead: none, a negative one, and
\* every smaller positive one
SmallerBuffers == { b \in -1 .. MaxBuffer : b <= buffer_meters }

\* the record polygon i gets when the run is given buffer b
RecordUnder(i, b) ==
    _analyze_single_polygon(detected_polygons[i],
                            BufferedUnion(lease_polygons, b), lease_polygons)

\* cell c lies within b metres of some lease
NearLease(c, b) ==
    \E k \in 1 .. Len(lease_polygons) :
        \E u \in CellsOf(lease_polygons[k].geometry) : Abs(c - u) <= b

\* C21: the boundary used for the overlay is the lease union expanded by
\* buffer_meters when buffer_meters > 0 and the lease union itself otherwise;
\* against any smaller buffer, a polygon's inside area is not larger, its
\* outside area is not smaller, and a polygon legal under the smaller buffer
\* is legal under the larger one.
C21_BufferMonotone ==
    pc = "returned" /\ ~ EmptyInput /\ ~ BatchFailed =>
        /\ \A c \in Grid :
              c \in lease_union_buffered <=>
                  NearLease(c, IF buffer_meters > 0 THEN buffer_meters ELSE 0)
        /\ \A b \in SmallerBuffers :
              LET smaller == BufferedUnion(lease_polygons, b)
              IN  /\ smaller \subseteq lease_union_buffered
                  /\ b <= 0 => smaller = UnaryUnion(lease_polygons)
                  /\ \A i \in 1 .. Len(results) :
                        Analysed(i) =>
                            LET under == _analyze_single_polygon(
                                             detected_polygons[i], smaller, lease_polygons)
                            IN  /\ under.inside_area_ha <= results[i].inside_area_ha
                                /\ under.outside_area_ha >= results[i].outside_area_ha
                                /\ under.status = "legal" => results[i].status = "legal"

\* C21 witness: a polygon that is legal under the buffer of the run and was
\* not legal, with less inside and more outside, without a buffer
C21_Witness ==
    /\ pc = "returned"
    /\ buffer_meters > 0
    /\ \E i \in 1 .. Len(results) :
          /\ Analysed(i)
          /\ results[i].status = "legal"
          /\ RecordUnder(i, 0).status # "legal"
          /\ RecordUnder(i, 0).inside_area_ha < results[i].inside_area_ha
          /\ RecordUnder(i, 0).outside_area_ha > results[i].outside_area_ha

-----------------------------------------------------------------------------
(* Properties of the final dilation and erosion *)

\* C22: the 3x3 dilation followed by the 2x2 erosion only grows the mask:
\* every pixel that is 1 in the output of _clean_mask, border rows and
\* columns included, is 1 in the final mask.
C22_FinalStepOnlyGrows ==
    dpc = "eroded" => _clean_mask(mining_mask, raster_shape) \subseteq cleaned_mask

-----------------------------------------------------------------------------
(* Properties of a record's own fields *)

\* the records that carry a classification
Classified == { r \in Records : r.status \in { "legal", "mixed", "illegal" } }

\* C26 as stated: the status is the classification rule applied to the
\* reported fields: legal iff the reported outside_area_ha <= 0.01, otherwise
\* mixed iff the reported overlap_percentage >= 80, otherwise illegal.
C26_StatusFromReportedFields ==
    \A r \in Classified :
        r.status = IF r.outside_area_ha <= 1 THEN "legal"
                   ELSE IF r.overlap_percentage >= 800 THEN "mixed"
                   ELSE "illegal"

\* C26 as amended: the status agrees with the rule on the reported fields up
\* to their rounding: a reported outside_area_ha of 0.00 is legal, one of 0.02
\* or more is not legal, and one of 0.01 is legal, mixed or illegal; a mixed
\* record reports an overlap_percentage >= 80.0 and an illegal one <= 80.0.
C26_StatusWithinRounding ==
    \A r \in Classified :
        /\ r.outside_area_ha = 0 => r.status = "legal"
        /\ r.outside_area_ha >= 2 => r.status # "legal"
        /\ r.status = "mixed" => r.overlap_percentage >= 800
        /\ r.status = "illegal" => r.overlap_percentage <= 800

\* C26 witness: a record that reports an outside_area_ha of 0.01 and is not
\* legal, next to a legal one
C26_Witness ==
    /\ \E r \in Classified : r.outside_area_ha = 1 /\ r.status = "illegal"
    /\ \E r \in Classified : r.status = "legal"

\* C27: in a record produced without failure under a positive buffer, a
\* positive inside area comes with a non-empty overlapping_leases list: a
\* record without overlapping lease (lease factor 0.8) has inside_area_ha 0
\* and overlap_percentage 0.
C27_InsideHasLease ==
    buffer_meters > 0 =>
        \A i \in 1 .. Len(results) :
            Analysed(i) =>
                /\ InsideM2(i) > 0 => results[i].overlapping_leases # << >>
                /\ results[i].num_overlapping_leases = 0 =>
                      /\ results[i].inside_area_ha = 0
                      /\ results[i].overlap_percentage = 0

-----------------------------------------------------------------------------
(* Properties of polygons within the tolerance *)

\* polygon i was analysed without failure and its total area is at most
\* tolerance_ha (0.01 ha = 100 m^2)
Tiny(i) == Analysed(i) /\ TotalM2(i) <= 100

\* polygon i lies outside the buffered union and meets no lease
FullyOutside(i) == InsideM2(i) = 0 /\ NumLeases(i) = 0

\* C28: a polygon whose total area is at most 0.01 ha is legal wherever it
\* lies, also fully outside every buffered lease; its record has
\* illegal_area_ha = 0, and its total_area_ha is part of the summary's
\* legal_area_ha and of the compliance rate, not of illegal_area_ha.
C28_TinyIsLegal ==
    /\ \A i \in 1 .. Len(results) :
          Tiny(i) =>
              /\ results[i].status = "legal"
              /\ results[i].illegal_area_ha = 0
              /\ FullyOutside(i) =>
                    /\ results[i].overlap_percentage = 0
                    /\ results[i].overlapping_leases = << >>
    /\ SummarizedNonEmpty =>
          LET tiny == { i \in 1 .. Len(returned) : Tiny(i) }
              tiny_area == SumFrom([k \in 1 .. Len(returned) |->
                                       IF k \in tiny THEN returned[k].total_area_ha
                                       ELSE 0], 1)
          IN  /\ summary.legal_areas >= Cardinality(tiny)
              /\ summary.legal_area_ha >= tiny_area
              /\ summary.illegal_area_ha
                     <= summary.total_detected_area_ha - tiny_area
              /\ summary.compliance_rate_percent * summary.total_detected_area_ha
                     >= tiny_area * 1000 - summary.total_detected_area_ha

\* C28 witness: a polygon of exactly 0.01 ha fully outside every buffered
\* lease is the only record of a summary, which reports full compliance
C28_Witness ==
    /\ SummarizedNonEmpty
    /\ Len(returned) = 1
    /\ Tiny(1)
    /\ TotalM2(1) = 100
    /\ FullyOutside(1)
    /\ returned[1].status = "legal"
    /\ summary.legal_area_ha = 1
    /\ summary.compliance_rate_percent = 1000

-----------------------------------------------------------------------------
(* Runs of compare_with_lease on sub-hectare polygons *)

\* detected geometries of 0.09 ha and 0.39 ha at 300 m^2 a cell: one next to
\* lease ML-2, one inside lease ML-1 and far from ML-2, one at the start of
\* the strip; an empty polygon and a missing one
RateGeoms == { Rect(15, 18), Rect(0, 13), Rect(0, 3), Rect(5, 5), NoneGeom }

RateFrames ==
    UNION { { [k \in 1 .. n |-> [id |-> k, geometry |-> g[k]]] : g \in [1 .. n -> RateGeoms] }
            : n \in 0 .. MaxPolys }

RateHeights == { 300 }

RateInit ==
    /\ detected_polygons \in RateFrames
    /\ lease_polygons \in LeaseFrames
    /\ \E c \in CRSCases :
          /\ detected_crs = c[1]
          /\ lease_crs = c[2]
          /\ equal_area_crs = c[3]
    /\ buffer_meters \in 0 .. MaxBuffer
    /\ strip_height \in RateHeights
    /\ pc = "start"
    /\ lease_union_buffered = {}
    /\ results = << >>
    /\ returned = << >>
    /\ raised = FALSE
    /\ log = << >>
    /\ summary = NoSummary
    /\ DetectorIdle
    /\ ServiceIdle

RateSpec == RateInit /\ [][Next]_vars

-----------------------------------------------------------------------------
(* Properties of the summary rates *)

\* the areas of the summary nest and each rate is within [0, 100]
SummaryAreasNest ==
    /\ summary.legal_area_ha + summary.illegal_area_ha
           <= summary.total_detected_area_ha
    /\ summary.legal_area_ha >= 0
    /\ summary.illegal_area_ha >= 0
    /\ summary.compliance_rate_percent \in 0 .. 1000
    /\ summary.violation_rate_percent \in 0 .. 1000

\* C29 as stated: in the summary of every record set compare_with_lease
\* returns, compliance_rate_percent + violation_rate_percent <= 100,
\* legal_area_ha + illegal_area_ha <= total_detected_area_ha, and both rates
\* are in [0, 100].
C29_RatesSumToAtMost100 ==
    pc = "summarized" =>
        /\ SummaryAreasNest
        /\ summary.compliance_rate_percent + summary.violation_rate_percent <= 1000

\* C29 as amended: the areas nest and both rates are in [0, 100] as stated;
\* the two rates, each rounded to one decimal, add up to at most 100.1.
C29_RatesSumWithinRounding ==
    pc = "summarized" =>
        /\ SummaryAreasNest
        /\ summary.compliance_rate_percent + summary.violation_rate_percent <= 1001

\* C29 witness: the summary of a legal polygon of 0.09 ha and an illegal one
\* of 0.39 ha, whose rates 18.8 and 81.3 add up to 100.1
C29_Witness ==
    /\ pc = "summarized"
    /\ summary.legal_area_ha = 9
    /\ summary.illegal_area_ha = 39
    /\ summary.total_detected_area_ha = 48
    /\ summary.compliance_rate_percent = 188
    /\ summary.violation_rate_percent = 813

-----------------------------------------------------------------------------
(* A batch whose caller asks for its cancellation *)

\* the caller of a running batch raises the cancellation signal; the loop of
\* lines 192-196 reads no such signal
RequestCancel ==
    /\ pc \in { "start", "loop" }
    /\ ~ cancel_requested
    /\ cancel_requested' = TRUE
    /\ UNCHANGED << classifier, detector, runs, analysis_results, task >>

CancelNext ==
    \/ Next
    \/ RequestCancel

CancelSpec == RateInit /\ [][CancelNext]_vars

\* C25: once the cancellation signal is raised no further polygon is analysed:
\* the list of records stays as it was when the signal came, and that list is
\* the result of the batch.
C25_CancelStopsTheLoop ==
    [][ cancel_requested =>
            /\ results' = results
            /\ pc' = "returned" => returned' = results ]_vars

-----------------------------------------------------------------------------
(* Concurrent calls of compare_with_lease on the shared illegal_detector *)
(*                                                                         *)
(* Each run has its own arguments and locals in runs[r]; the runs share    *)
(* the detector (buffer_meters, tolerance_ha), the lease frame, the CRS    *)
(* arguments and the logger, and their steps interleave freely.            *)

Runs == { 1, 2 }

ConcurrentGeoms == { Rect(0, 18), Rect(10, GridLen) }

ConcurrentFrames ==
    UNION { { [k \in 1 .. n |-> [id |-> k, geometry |-> g[k]]] :
                g \in [1 .. n -> ConcurrentGeoms] } : n \in 0 .. MaxPolys }

ConcurrentLeaseFrames ==
    { f \in LeaseFrames : Len(f) = 0 \/ f[1].lease_id = "ML-1" }

ConcurrentHeights == { 5000 }

\* variant: the runs append to one list
Mut_OutputSlot_shared(rs, r, result) ==
    [q \in DOMAIN rs |-> [rs[q] EXCEPT !.results = Append(@, result)]]

\* lines 190 and 196: results is a local list of the call
OutputSlot(rs, r, result) == [rs EXCEPT ![r].results = Append(@, result)]

ConcurrentInit ==
    /\ detected_polygons = << >>
    /\ lease_polygons \in ConcurrentLeaseFrames
    /\ \E c \in CRSCases :
          /\ detected_crs = c[1]
          /\ lease_crs = c[2]
          /\ equal_area_crs = c[3]
    /\ buffer_meters \in 0 .. MaxBuffer
    /\ strip_height \in ConcurrentHeights
    /\ pc = "idle"
    /\ lease_union_buffered = {}
    /\ results = << >>
    /\ returned = << >>
    /\ raised = FALSE
    /\ log = << >>
    /\ summary = NoSummary
    /\ DetectorIdle
    /\ cancel_requested = FALSE
    /\ runs \in [Runs -> { [ detected_polygons |-> f,
                             pc |-> "start",
                             lease_union_buffered |-> {},
                             results |-> << >>,
                             returned |-> << >> ] : f \in ConcurrentFrames }]
    /\ analysis_results = << >>
    /\ task = << >>

\* what a step of a run leaves alone
RunFrame ==
    UNCHANGED << detected_polygons, lease_polygons, detected_crs, lease_crs,
                 equal_area_crs, buffer_meters, strip_height, pc,
                 lease_union_buffered, results, returned, raised, summary,
                 detector, cancel_requested, analysis_results, task >>

\* lines 168-170
RunReturnEmptyInput(r) ==
    /\ runs[r].pc = "start"
    /\ IsEmpty(runs[r].detected_polygons) \/ IsEmpty(lease_polygons)
    /\ log' = log \o << "info", "warning" >>
    /\ runs' = [runs EXCEPT ![r].returned = << >>, ![r].pc = "returned"]
    /\ RunFrame

\* lines 172-178 raise, lines 212-214 catch
RunSwallowBatchFailure(r) ==
    /\ runs[r].pc = "start"
    /\ ~ (IsEmpty(runs[r].detected_polygons) \/ IsEmpty(lease_polygons))
    /\ ~ ReprojectionSucceeds
    /\ log' = log \o << "info", "error" >>
    /\ runs' = [runs EXCEPT ![r].returned = << >>, ![r].pc = "returned"]
    /\ RunFrame

\* lines 172-190
RunPrepare(r) ==
    /\ runs[r].pc = "start"
    /\ ~ (IsEmpty(runs[r].detected_polygons) \/ IsEmpty(lease_polygons))
    /\ ReprojectionSucceeds
    /\ log' = log \o << "info" >>
    /\ runs' = [runs EXCEPT
                  ![r].lease_union_buffered = BufferedUnion(lease_polygons, buffer_meters),
                  ![r].results = << >>,
                  ![r].pc = "loop"]
    /\ RunFrame

\* lines 192-196
RunAnalyzeNext(r) ==
    /\ runs[r].pc = "loop"
    /\ Len(runs[r].results) < Len(runs[r].detected_polygons)
    /\ LET detected_poly == runs[r].detected_polygons[Len(runs[r].results) + 1]
       IN  /\ runs' = OutputSlot(runs, r,
                         _analyze_single_polygon(detected_poly,
                                                 runs[r].lease_union_buffered,
                                                 lease_polygons))
           /\ log' = IF AnalysisRaises(detected_poly) THEN Append(log, "error") ELSE log
    /\ RunFrame

\* lines 198-210
RunFinish(r) ==
    /\ runs[r].pc = "loop"
    /\ Len(runs[r].results) = Len(runs[r].detected_polygons)
    /\ log' = Append(log, "info")
    /\ runs' = [runs EXCEPT
                  ![r].returned = MergeColumns(runs[r].results, runs[r].detected_polygons),
                  ![r].pc = "returned"]
    /\ RunFrame

ConcurrentNext ==
    \E r \in Runs :
        \/ RunReturnEmptyInput(r)
        \/ RunSwallowBatchFailure(r)
        \/ RunPrepare(r)
        \/ RunAnalyzeNext(r)
        \/ RunFinish(r)

ConcurrentSpec == ConcurrentInit /\ [][ConcurrentNext]_vars

-----------------------------------------------------------------------------
(* Properties of concurrent runs *)

\* the frame run r returns when it runs alone
Alone(r) == compare_with_lease(runs[r].detected_polygons, lease_polygons, buffer_meters)

\* run r holds the records a run alone has after as many iterations
AsAlone(r) ==
    /\ runs[r].pc = "returned" => runs[r].returned = Alone(r)
    /\ runs[r].pc = "loop" =>
          /\ Len(runs[r].results) <= Len(Alone(r))
          /\ \A k \in 1 .. Len(runs[r].results) :
                runs[r].results[k] @@ [id |-> k] = Alone(r)[k]

\* C23: concurrent runs on the shared detector never write buffer_meters, the
\* lease collection or a caller's polygon collection, and under every
\* interleaving each run holds and returns the records it gives when it runs
\* alone.
C23_ConcurrentRunsIndependent ==
    /\ [](\A r \in Runs : AsAlone(r))
    /\ [][ /\ buffer_meters' = buffer_meters
           /\ lease_polygons' = lease_polygons
           /\ \A r \in Runs :
                 runs'[r].detected_polygons = runs[r].detected_polygons ]_vars

\* C23 witness: two runs are inside their loops at the same time, each with
\* one record of its own polygon, the two records differing
C23_Witness ==
    /\ runs[1].pc = "loop"
    /\ runs[2].pc = "loop"
    /\ Len(runs[1].results) = 1
    /\ Len(runs[2].results) = 1
    /\ Len(runs[1].detected_polygons) = 2
    /\ runs[1].results[1].status # runs[2].results[1].status

-----------------------------------------------------------------------------
(* POST /api/detect, its background task and GET /api/results (app.py) *)
(*                                                                         *)
(* job_id is the position of the job in analysis_results (a fresh uuid4 in *)
(* the source).  The module-level illegal_detector was built with the      *)
(* default buffer_meters.  detect_illegal_mining and                       *)
(* _run_illegal_mining_analysis are coroutines of one event loop and       *)
(* neither contains an await: a handler runs only while no task is between *)
(* its first and its last statement, and so does the start of a task.      *)

MaxJobs == 2

\* IllegalMiningDetector.__init__(self, buffer_meters: float = 10.0)
DefaultBufferMeters == 10

\* one whole call of compare_with_lease on a detector whose buffer_meters is
\* self_buffer_meters; crs_args = << detected_polygons.crs, lease_polygons.crs,
\* equal_area_crs >>
CompareCall(self_buffer_meters, detected, leases, crs_args) ==
    IF IsEmpty(detected) \/ IsEmpty(leases) THEN << >>
    ELSE IF ~ (ValidCRS(crs_args[1]) /\ ValidCRS(crs_args[2]) /\ ValidCRS(crs_args[3]))
    THEN << >>
    ELSE MergeColumns(
             [k \in 1 .. Len(detected) |->
                 _analyze_single_polygon(detected[k],
                                         BufferedUnion(leases, self_buffer_meters),
                                         leases)],
             detected)

\* the float x as Python writes it
FloatRepr(x) == ToString(x) \o ".0"

\* DetectionRequest: buffer_meters, and where the leases come from
\* (lease_file_path of an existing file, else fetch_gov_leases, else neither)
RequestBuffers == { 1, MaxBuffer }
LeaseSources == { "file", "gov", "none" }
DetectionRequest == [buffer_meters : RequestBuffers, lease_source : LeaseSources]

\* detection_results['polygons'] of a successful detection, and the leases a
\* lease file or the government WFS gives
JobPolygons == << [id |-> 1, geometry |-> Rect(0, GridLen)] >>
JobLeases == << [lease_id |-> "ML-1", lease_name |-> "Mine A", geometry |-> Rect(0, 17)] >>
JobCRS == "EPSG:4326"
JobHeights == { 5000 }

JobInit ==
    /\ detected_polygons = << >>
    /\ lease_polygons = << >>
    /\ detected_crs = NoneCRS
    /\ lease_crs = NoneCRS
    /\ equal_area_crs = NoneCRS
    /\ buffer_meters = DefaultBufferMeters
    /\ strip_height \in JobHeights
    /\ pc = "idle"
    /\ lease_union_buffered = {}
    /\ results = << >>
    /\ returned = << >>
    /\ raised = FALSE
    /\ log = << >>
    /\ summary = NoSummary
    /\ DetectorIdle
    /\ ServiceIdle

\* the event loop is inside the body of some job's task
Running == \E job_id \in DOMAIN task : task[job_id].pc \notin { "queued", "done" }

\* what a handler or a task step leaves alone
JobFrame == UNCHANGED << classifier, detector, cancel_requested, runs >>

\* lines 446-473: detect_illegal_mining
CreateJob(request) ==
    /\ Len(analysis_results) < MaxJobs
    /\ ~ Running
    /\ analysis_results' = Append(analysis_results,
                                  [ status |-> "processing",
                                    progress |-> 0,
                                    request |-> request ])
    /\ task' = Append(task, [ pc |-> "queued",
                              request |-> request,
                              lease_gdf |-> << >>,
                              comparison_results |-> << >> ])
    /\ JobFrame

\* analysis_results[job_id]["progress"] = p, and the task moves on
Advance(job_id, p, next_pc) ==
    /\ analysis_results' = [analysis_results EXCEPT ![job_id].progress = p]
    /\ task' = [task EXCEPT ![job_id].pc = next_pc]
    /\ JobFrame

\* lines 481-486
TaskStart(job_id) ==
    /\ task[job_id].pc = "queued"
    /\ ~ Running
    /\ Advance(job_id, 10, "download")

\* lines 488-516: both downloads succeed
TaskDownload(job_id) ==
    /\ task[job_id].pc = "download"
    /\ Advance(job_id, 30, "preprocess")

\* lines 518-529
TaskPreprocess(job_id) ==
    /\ task[job_id].pc = "preprocess"
    /\ Advance(job_id, 50, "detect")

\* lines 531-541: polygons were detected
TaskDetect(job_id) ==
    /\ task[job_id].pc = "detect"
    /\ Advance(job_id, 70, "compare")

\* lines 544-558: read_lease_shapefile gives an empty frame when it fails
LeaseFramesFor(request) ==
    IF request.lease_source = "file" THEN { << >>, JobLeases }
    ELSE IF request.lease_source = "gov" THEN { JobLeases }
    ELSE {}

\* lines 543-568: the leases are obtained and compare_with_lease is called with
\* request.buffer_meters as its third positional argument
TaskCompare(job_id) ==
    /\ task[job_id].pc = "compare"
    /\ \E lease_gdf \in LeaseFramesFor(task[job_id].request) :
          task' = [task EXCEPT
                     ![job_id].lease_gdf = lease_gdf,
                     ![job_id].comparison_results =
                         CompareCall(buffer_meters, JobPolygons, lease_gdf,
                                     << JobCRS, JobCRS,
                                        FloatRepr(task[job_id].request.buffer_meters) >>),
                     ![job_id].pc = "report"]
    /\ analysis_results' = [analysis_results EXCEPT ![job_id].progress = 90]
    /\ JobFrame

\* lines 581-593: the update of a finished job
CompletedUpdate(job, comparison_results) ==
    [ status |-> "completed",
      progress |-> 100,
      results |-> [ comparison_results |-> comparison_results,
                    summary_statistics |->
                        generate_summary_statistics(comparison_results) ] ]
    @@ job

\* lines 570-593
TaskComplete(job_id) ==
    /\ task[job_id].pc = "report"
    /\ analysis_results' =
           [analysis_results EXCEPT
              ![job_id] = CompletedUpdate(@, task[job_id].comparison_results)]
    /\ task' = [task EXCEPT ![job_id].pc = "done"]
    /\ JobFrame

\* variant: the failure puts the progress back to 0
Mut_FailedUpdate_reset(job, stage) ==
    [ status |-> "failed", progress |-> 0, error |-> stage ] @@ job

\* lines 599-604: the update of the except branch
FailedUpdate(job, stage) == [ status |-> "failed", error |-> stage ] @@ job

\* the statements of the stage the task is in can raise: a download fails,
\* preprocessing or detection raises or finds nothing, no lease data is to be
\* had, the results cannot be serialised
CanRaise(job_id) ==
    \/ task[job_id].pc \in { "download", "preprocess", "detect", "report" }
    \/ /\ task[job_id].pc = "compare"
       /\ task[job_id].request.lease_source \in { "gov", "none" }

\* a stage raises; lines 597-604 catch
TaskFail(job_id) ==
    /\ CanRaise(job_id)
    /\ analysis_results' =
           [analysis_results EXCEPT ![job_id] = FailedUpdate(@, task[job_id].pc)]
    /\ task' = [task EXCEPT ![job_id].pc = "done"]
    /\ JobFrame

\* lines 661-690: get_results writes nothing; what it returns for job_id is a
\* function of analysis_results at the moment of the request
get_results(job_id) ==
    IF job_id \notin DOMAIN analysis_results THEN [ status_code |-> 404 ]
    ELSE LET result == analysis_results[job_id]
         IN  IF result.status = "completed"
             THEN [ status_code |-> 200, job_id |-> job_id, status |-> "completed",
                    results |-> result.results ]
             ELSE IF result.status = "failed"
             THEN [ status_code |-> 200, job_id |-> job_id, status |-> "failed",
                    error |-> result.error ]
             ELSE [ status_code |-> 200, job_id |-> job_id, status |-> result.status,
                    progress |-> result.progress ]

\* a step of _run_illegal_mining_analysis for the job
TaskStep(job_id) ==
    /\ job_id \in DOMAIN task
    /\ \/ TaskStart(job_id)
       \/ TaskDownload(job_id)
       \/ TaskPreprocess(job_id)
       \/ TaskDetect(job_id)
       \/ TaskCompare(job_id)
       \/ TaskComplete(job_id)
       \/ TaskFail(job_id)

JobNext ==
    \/ \E request \in DetectionRequest : CreateJob(request)
    \/ \E job_id \in DOMAIN task : TaskStart(job_id)
    \/ \E job_id \in DOMAIN task : TaskDownload(job_id)
    \/ \E job_id \in DOMAIN task : TaskPreprocess(job_id)
    \/ \E job_id \in DOMAIN task : TaskDetect(job_id)
    \/ \E job_id \in DOMAIN task : TaskCompare(job_id)
    \/ \E job_id \in DOMAIN task : TaskComplete(job_id)
    \/ \E job_id \in DOMAIN task : TaskFail(job_id)

\* BackgroundTasks runs the task of every job after the response is sent, and
\* every stage call returns or raises
JobSpec ==
    /\ JobInit
    /\ [][JobNext]_vars
    /\ \A job_id \in 1 .. MaxJobs : WF_vars(TaskStep(job_id))

(***************************************************************************)
(* Properties of the buffer of a detection request                         *)
(***************************************************************************)

\* the job has made its call of compare_with_lease
Compared(job_id) ==
    /\ job_id \in DOMAIN task
    /\ \/ task[job_id].pc = "report"
       \/ analysis_results[job_id].status = "completed"

\* the records the request asks for: the leases buffered by the request's
\* buffer_meters, the areas measured in EPSG:3857
RequestedRecords(job_id) ==
    CompareCall(task[job_id].request.buffer_meters, JobPolygons,
                task[job_id].lease_gdf, << JobCRS, JobCRS, "EPSG:3857" >>)

\* C24: the comparison step of a job buffers the leases by the buffer_meters
\* of the job's request and measures in EPSG:3857, so its records are those of
\* a detector with that buffer, and two jobs on the same leases whose requests
\* differ in buffer_meters are compared against different buffered unions
C24_RequestBufferApplied ==
    /\ \A job_id \in DOMAIN task :
          Compared(job_id) =>
              task[job_id].comparison_results = RequestedRecords(job_id)
    /\ \A j, k \in DOMAIN task :
          ( /\ Compared(j)
            /\ Compared(k)
            /\ ~ IsEmpty(task[j].lease_gdf)
            /\ task[j].lease_gdf = task[k].lease_gdf
            /\ task[j].request.buffer_meters # task[k].request.buffer_meters )
          => task[j].comparison_results # task[k].comparison_results

(***************************************************************************)
(* Properties of the life of a job                                         *)
(***************************************************************************)

ProgressValues == { 0, 10, 30, 50, 70, 90, 100 }

Finished(job) == job.status \in { "completed", "failed" }

\* what holds of a job at every moment
JobConsistent(job_id) ==
    LET job == analysis_results[job_id]
    IN  /\ job.status \in { "processing", "completed", "failed" }
        /\ job.progress \in ProgressValues
        /\ task[job_id].pc = "queued" => job.status = "processing" /\ job.progress = 0
        /\ job.status = "completed" =>
               /\ job.progress = 100
               /\ "results" \in DOMAIN job
               /\ "error" \notin DOMAIN job
        /\ job.status = "failed" =>
               /\ "error" \in DOMAIN job
               /\ "results" \notin DOMAIN job
        /\ "results" \in DOMAIN get_results(job_id) =>
               /\ job.status = "completed"
               /\ get_results(job_id).results = job.results

\* what holds of every step
JobStepOrdered ==
    \A job_id \in DOMAIN analysis_results' :
        IF job_id \notin DOMAIN analysis_results
        THEN /\ analysis_results'[job_id].status = "processing"
             /\ analysis_results'[job_id].progress = 0
        ELSE /\ analysis_results'[job_id].progress >= analysis_results[job_id].progress
             /\ Finished(analysis_results[job_id]) =>
                    analysis_results'[job_id] = analysis_results[job_id]

\* C30: a job starts as processing with progress 0; its progress takes the
\* values 0, 10, 30, 50, 70, 90, 100 and never decreases; a completed job
\* has progress 100 and results, a failed one an error and no results; the
\* job ends up completed or failed, and is not changed afterwards;
\* get_results gives results only for a completed job
C30_JobLifecycle ==
    /\ [] ( /\ \A job_id \in DOMAIN analysis_results : JobConsistent(job_id)
            /\ \A job_id \in 1 .. MaxJobs + 1 :
                  job_id \notin DOMAIN analysis_results =>
                      "results" \notin DOMAIN get_results(job_id) )
    /\ [][JobStepOrdered]_vars
    /\ \A job_id \in 1 .. MaxJobs :
          (job_id \in DOMAIN analysis_results)
              ~> ( /\ job_id \in DOMAIN analysis_results
                   /\ Finished(analysis_results[job_id]) )

\* one job has completed with its results and another has failed, after its
\* download, with its error
C30_Witness ==
    \E j, k \in DOMAIN analysis_results :
        /\ analysis_results[j].status = "completed"
        /\ analysis_results[j].progress = 100
        /\ "results" \in DOMAIN get_results(j)
        /\ analysis_results[k].status = "failed"
        /\ analysis_results[k].progress = 30
        /\ analysis_results[k].error = "preprocess"
        /\ "error" \in DOMAIN get_results(k)

====
